---- MODULE Spec2Model ----
(***************************************************************************)
(* Model of the chisato conversation/action control loop:                  *)
(*   Agent.chat, Agent._executeActions        (src/src/Agent.ts)           *)
(*   AgentLoop.run and its post-processing    (src/src/AgentLoop.ts)       *)
(*   parseActionCalls, formatActionResults    (depth-tracking parser)      *)
(*                                                                         *)
(* A text is a sequence of tokens.  A token stands for a run of characters *)
(* of the model's reply:                                                   *)
(*   lb, rb   the characters { and }                                       *)
(*   ws       white space                                                  *)
(*   prose    any other text outside JSON (x: the text)                    *)
(*   str      a JSON member  "x": "y"   (string valued)                    *)
(*   key      a JSON member name  "x":  whose value is the object that     *)
(*            starts at the next token                                     *)
(***************************************************************************)
EXTENDS Integers, Sequences, FiniteSets, TLC

\* ------------------------------------------------------------------ bounds
MaxRuns == 2            \* run calls made on the one AgentLoop instance
MaxTranscript == 2      \* a further run starts only on a transcript this short
MaxSteps == 3           \* the maxSteps option ranges over 1..MaxSteps
MaxRetries == 2         \* the maxRetries option
MaxActionRetries == 2   \* the maxActionRetries option
MaxParts == 3           \* pieces of a text given to parseActionCalls on its own
MaxResults == 2         \* results given to formatActionResults on its own

\* ------------------------------------------------------------------ tokens
Tok(t, x, y) == [t |-> t, x |-> x, y |-> y]
LB == Tok("lb", "", "")
RB == Tok("rb", "", "")
WS == Tok("ws", "", "")
Prose(x) == Tok("prose", x, "")
Str(x, y) == Tok("str", x, y)
Key(x) == Tok("key", x, "")

\* An action block {"action": a, "parameters": {<members>}} as it is written
\* by the model (README calling convention).
Block(a, members) ==
    <<LB, Str("action", a), Key("parameters"), LB>> \o members \o <<RB, RB>>

\* String.prototype.includes('"w"'): the quoted word w occurs in the text,
\* as a member name or as a string value.
Includes(text, w) ==
    \E i \in 1..Len(text) :
        /\ text[i].t \in {"str", "key"}
        /\ (text[i].x = w \/ (text[i].t = "str" /\ text[i].y = w))

\* response.trim().length === 0
IsBlank(text) == \A i \in 1..Len(text) : text[i].t = "ws"

\* ------------------------------------------------------------ JSON.parse
NoWs(text) == SelectSeq(text, LAMBDA k : k.t # "ws")

\* brace depth after the first i tokens of s
RECURSIVE DepthAt(_, _)
DepthAt(s, i) ==
    IF i = 0 THEN 0
    ELSE DepthAt(s, i - 1)
         + (IF s[i].t = "lb" THEN 1 ELSE IF s[i].t = "rb" THEN -1 ELSE 0)

\* JSON.parse(text) does not throw: text is one object, every nested object
\* is the value of a member name, nothing but members inside.
JsonValid(text) ==
    LET s == NoWs(text) IN
    /\ Len(s) >= 2
    /\ s[1].t = "lb"
    /\ s[Len(s)].t = "rb"
    /\ DepthAt(s, Len(s)) = 0
    /\ \A i \in 1..(Len(s) - 1) : DepthAt(s, i) >= 1
    /\ \A i \in 1..Len(s) : s[i].t # "prose"
    /\ \A i \in 2..Len(s) : (s[i].t = "lb") <=> (s[i - 1].t = "key")

\* index of the last top-level member named name in the parsed object, 0 if none
\* (JSON.parse keeps the last of duplicate member names)
TopMember(s, name) ==
    LET idx == {i \in 2..Len(s) :
                  /\ s[i].t \in {"str", "key"}
                  /\ s[i].x = name
                  /\ DepthAt(s, i - 1) = 1}
    IN IF idx = {} THEN 0 ELSE CHOOSE i \in idx : \A j \in idx : j <= i

\* index of the rb that closes the object opened at index i
ClosingOf(s, i) ==
    CHOOSE j \in i..Len(s) :
        /\ DepthAt(s, j) = DepthAt(s, i - 1)
        /\ \A k \in i..(j - 1) : DepthAt(s, k) > DepthAt(s, i - 1)

\* the members of the object that is the value of member name at index i
ObjectValue(s, i) == SubSeq(s, i + 2, ClosingOf(s, i + 1) - 1)

\* parsed.action && parsed.parameters, then the pushed ActionCall.
\* A string-valued member is truthy iff it is non-empty; an object is truthy.
ParsedCall(text) ==
    LET s == NoWs(text)
        a == TopMember(s, "action")
        p == TopMember(s, "parameters")
        aTruthy == a # 0 /\ (s[a].t = "key" \/ s[a].y # "")
        pTruthy == p # 0 /\ (s[p].t = "key" \/ s[p].y # "")
    IN IF aTruthy /\ pTruthy
       THEN <<[action |-> IF s[a].t = "str" THEN s[a].y ELSE "[object Object]",
               parameters |-> IF s[p].t = "key" THEN ObjectValue(s, p)
                              ELSE <<Str("", s[p].y)>>]>>
       ELSE <<>>

\* ------------------------------------------------------- parseActionCalls
\* ScanStep that ends a candidate at the first closing brace, whatever the
\* depth (what the non-greedy pattern \{[\s\S]*?\} does)
ScanStepFirstClose(st, tok) ==
    IF tok.t = "lb" THEN
        IF ~st.inJson
        THEN [st EXCEPT !.inJson = TRUE, !.braceCount = 1, !.currentJson = <<LB>>]
        ELSE [st EXCEPT !.braceCount = @ + 1, !.currentJson = Append(@, tok)]
    ELSE IF tok.t = "rb" /\ st.inJson THEN
        LET cur == Append(st.currentJson, tok)
        IN IF /\ Includes(cur, "action") /\ Includes(cur, "parameters")
              /\ JsonValid(cur)
           THEN [inJson |-> FALSE, braceCount |-> 0, currentJson |-> <<>>,
                 calls |-> st.calls \o ParsedCall(cur)]
           ELSE [st EXCEPT !.inJson = FALSE, !.braceCount = 0,
                           !.currentJson = <<>>]
    ELSE IF st.inJson THEN [st EXCEPT !.currentJson = Append(@, tok)]
    ELSE st

\* One character of the scan.  st = [inJson, braceCount, currentJson, calls].
\* The catch branch leaves with `continue`, before inJson and currentJson
\* are reset.
ScanStep(st, tok) ==
    IF tok.t = "lb" THEN
        IF ~st.inJson
        THEN [st EXCEPT !.inJson = TRUE, !.braceCount = 1, !.currentJson = <<LB>>]
        ELSE [st EXCEPT !.braceCount = @ + 1, !.currentJson = Append(@, tok)]
    ELSE IF tok.t = "rb" /\ st.inJson THEN
        LET cur == Append(st.currentJson, tok)
            bc == st.braceCount - 1
        IN IF bc # 0
           THEN [st EXCEPT !.braceCount = bc, !.currentJson = cur]
           ELSE IF Includes(cur, "action") /\ Includes(cur, "parameters")
                THEN IF JsonValid(cur)
                     THEN [inJson |-> FALSE, braceCount |-> 0, currentJson |-> <<>>,
                           calls |-> st.calls \o ParsedCall(cur)]
                     ELSE [st EXCEPT !.braceCount = 0, !.currentJson = cur]
                ELSE [st EXCEPT !.inJson = FALSE, !.braceCount = 0,
                                !.currentJson = <<>>]
    ELSE IF st.inJson THEN [st EXCEPT !.currentJson = Append(@, tok)]
    ELSE st

RECURSIVE Scan(_, _, _)
Scan(st, text, i) ==
    IF i > Len(text) THEN st ELSE Scan(ScanStep(st, text[i]), text, i + 1)

\* the locals of parseActionCalls before the loop
ScanStart ==
    [inJson |-> FALSE, braceCount |-> 0, currentJson |-> <<>>, calls |-> <<>>]

\* parseActionCalls that returns nothing when a capture is open at the end
parseActionCallsAllOrNothing(response) ==
    LET end == Scan(ScanStart, response, 1)
    IN IF end.inJson THEN <<>> ELSE end.calls

parseActionCalls(response) == Scan(ScanStart, response, 1).calls

\* ---------------------------------------------------- formatActionResults
ResultLine(r) ==
    IF r.success
    THEN [t |-> "line", x |-> r.action, y |-> "completed successfully", r |-> r.result]
    ELSE [t |-> "line", x |-> r.action, y |-> "failed", r |-> r.error]

\* formatActionResults without the check for no results
formatActionResultsAlwaysHeader(results) ==
    <<Prose("Action results:")>>
    \o [i \in 1..Len(results) |-> ResultLine(results[i])]

\* formatActionResults reporting the last result only
formatActionResultsLastOnly(results) ==
    IF Len(results) = 0 THEN <<>>
    ELSE <<Prose("Action results:"), ResultLine(results[Len(results)])>>

formatActionResults(results) ==
    IF Len(results) = 0 THEN <<>>
    ELSE <<Prose("Action results:")>>
         \o [i \in 1..Len(results) |-> ResultLine(results[i])]

\* ------------------------------------------------------------ the provider
\* What sendAgenticMessage may answer: the texts of the repository's tests and
\* demos (test-fix.ts, the retry demo), and the rejected shapes of the retry
\* guide.  Throw stands for a call that rejects (API error).
UserMessages == {<<Prose("What's the weather in Paris?")>>}

RPlain == <<Prose("Action completed.")>>
RBlank == <<WS>>
RMalformed ==
    <<LB, Str("action", "get_weather"), Key("parameters"), LB,
      Str("location", "Paris"), RB>>
RWeather == Block("get_weather", <<Str("location", "Paris")>>)
ROutput == Block("user_output", <<Str("message", "Sunny, 22C")>>)
RMixed ==
    Block("user_output", <<Str("message", "Working on it")>>)
    \o <<Prose("and then")>> \o Block("test_action", <<>>)
RTwo ==
    <<Prose("First")>> \o Block("nope", <<>>) \o <<WS>>
    \o Block("test_action", <<>>)
Throw == <<Tok("throw", "", "")>>

\* query_llm as the README writes it, and without the optional context
RQuery ==
    Block("query_llm", <<Str("prompt", "What are best practices?"),
                         Str("context", "We are building a CLI")>>)
RAsk == Block("query_llm", <<Str("prompt", "What are best practices?")>>)

\* what provider.sendMessage answers to a plain query
PlainReply == "Use small commands."

Replies == {RPlain, RBlank, RMalformed, RWeather, ROutput, RMixed, RTwo, Throw}


\* ------------------------------------------------------------------- state
VARIABLES
    options,              \* Agent.options / AgentLoop.options (fixed at construction)
    registry,             \* ActionRegistry.actions: the entries in insertion order
    registerOutcome,      \* how the last registerAction call ended
    parts,                \* the pieces of the text given to parseActionCalls on its own
    parsed,               \* what that parseActionCalls call returned
    toFormat,             \* the results given to formatActionResults on its own
    formatted,            \* what that formatActionResults call returned
    self,                 \* which loop instance the variables above describe
    peer,                 \* the fields of the other loop instance, if there is one
    conversationHistory,  \* Agent.conversationHistory
    userOutputs,          \* AgentLoop.userOutputs
    actionsExecuted,      \* AgentLoop.actionsExecuted
    pc,                   \* where the one thread of control is
    iterations,           \* chat: iterations
    finalResponse,        \* chat: finalResponse
    attempt,              \* chat: attempt of the validation loop
    response,             \* chat: response
    actionCalls,          \* chat: actionCalls of the round
    callIdx,              \* _executeActions: position of the for-of loop
    actAttempt,           \* _executeActions: attempt
    actionResults,        \* _executeActions: results
    chatOutcome,          \* how the last chat call ended
    runResult,            \* what the last run call returned
    runs,                 \* run calls started so far
    runStart,             \* length of the transcript when the current run began
    llmCalls,             \* sendAgenticMessage calls of the current run
    trace,                \* provider calls, execute calls and observer calls of the current round
    onUserOutputLog,      \* messages passed to onUserOutput in the current run
    onActionExecutedLog,  \* executions passed to onActionExecuted in the current run
    onStepCompleteLog,    \* steps passed to onStepComplete in the current run
    cleared               \* the clearHistory called since the last run call

chatVars == <<iterations, finalResponse, attempt, response, actionCalls, callIdx,
              actAttempt, actionResults>>
loopVars == <<userOutputs, actionsExecuted, runResult, runs, runStart,
              onUserOutputLog, onActionExecutedLog, onStepCompleteLog, cleared>>
unitVars == <<registerOutcome, parts, parsed, toFormat, formatted>>
loopsVars == <<self, peer>>
vars == <<options, registry, conversationHistory, pc, chatVars, chatOutcome,
          loopVars, llmCalls, trace, unitVars, loopsVars>>

Msg(role, content) == [role |-> role, content |-> content]
Ev(e, i, n, s) == [e |-> e, i |-> i, n |-> n, s |-> s]
NoOutcome == [kind |-> "none", text |-> <<>>, msg |-> "", n |-> 0, last |-> ""]
NoResult == [returned |-> FALSE, success |-> FALSE, outputs |-> <<>>,
             actionsExecuted |-> <<>>, error |-> NoOutcome]

\* An IAction object: its name, and which object it is.
Action(name, impl) == [name |-> name, impl |-> impl]

\* The includeDefaultActions option as the caller gives it: left out, a
\* boolean (its declared type), or a list of names (what the constructor
\* reads).
Omitted == [kind |-> "omitted", flag |-> FALSE, list |-> <<>>]
Bool(b) == [kind |-> "boolean", flag |-> b, list |-> <<>>]
List(l) == [kind |-> "list", flag |-> FALSE, list |-> l]

\* options.includeDefaultActions ?? ['user_output', 'query_llm']
DefaultActions == <<"user_output", "query_llm">>
IncludeDefaultActions(given) ==
    IF given.kind = "omitted" THEN List(DefaultActions) ELSE given

\* includeDefaultActions.length > 0: a boolean has no length, and
\* undefined > 0 is false
HasLength(inc) == inc.kind = "list" /\ Len(inc.list) > 0

\* Array.prototype.includes
ListIncludes(l, name) == \E i \in 1..Len(l) : l[i] = name

\* AgentLoop.registerDefaultActions: user_output first, then query_llm
registerDefaultActions(l) ==
    (IF ListIncludes(l, "user_output")
     THEN <<Action("user_output", "UserOutputAction")>> ELSE <<>>)
    \o (IF ListIncludes(l, "query_llm")
        THEN <<Action("query_llm", "QueryLLMAction")>> ELSE <<>>)

\* the registry the constructor leaves
Constructed(given) ==
    LET inc == IncludeDefaultActions(given)
    IN IF HasLength(inc) THEN registerDefaultActions(inc.list) ELSE <<>>

\* every way the option is given: left out, true, false, a list of built-in
\* names
IncludeChoices ==
    {Omitted, Bool(TRUE), Bool(FALSE), List(<<>>)}
    \cup {List(<<a>>) : a \in {"user_output", "query_llm"}}
    \cup {List(<<a, b>>) : a, b \in {"user_output", "query_llm"}}

\* test_action and get_weather are the caller's actions, registered with
\* registerAction after construction
CallerRegistered ==
    <<Action("get_weather", "caller"), Action("test_action", "caller")>>

\* Map.has(name)
Registered(name) == \E i \in 1..Len(registry) : registry[i].name = name

\* Map.get(name): the entry registered under the name, Undefined if none
Undefined == Action("", "undefined")
getAction(name) ==
    IF Registered(name)
    THEN registry[CHOOSE i \in 1..Len(registry) : registry[i].name = name]
    ELSE Undefined

NotParsed == [done |-> FALSE, calls |-> <<>>]
NotFormatted == [done |-> FALSE, text |-> <<>>]

\* the state after new AgentLoop(provider, {includeDefaultActions: given,
\* ...}) and the registerAction calls of the caller
New(given, caller) ==
    /\ options \in [maxIterations : 1..MaxSteps,
                    maxRetries : {MaxRetries},
                    maxActionRetries : {MaxActionRetries},
                    includeDefaultActions : {given}]
    /\ registry = Constructed(given) \o caller
    /\ registerOutcome = <<>>
    /\ parsed = NotParsed
    /\ formatted = NotFormatted
    /\ conversationHistory = <<>>
    /\ userOutputs = <<>>
    /\ actionsExecuted = <<>>
    /\ pc = "idle"
    /\ iterations = 0
    /\ finalResponse = <<>>
    /\ attempt = 0
    /\ response = <<>>
    /\ actionCalls = <<>>
    /\ callIdx = 0
    /\ actAttempt = 0
    /\ actionResults = <<>>
    /\ chatOutcome = NoOutcome
    /\ runResult = NoResult
    /\ runs = 0
    /\ runStart = 0
    /\ llmCalls = 0
    /\ trace = <<>>
    /\ onUserOutputLog = <<>>
    /\ onActionExecutedLog = <<>>
    /\ onStepCompleteLog = <<>>
    /\ cleared = ""

\* no second loop instance
Alone == self = 1 /\ peer = <<>>

\* includeDefaultActions is left out, or true as in the repository's tests
Init ==
    /\ parts = <<>>
    /\ toFormat = <<>>
    /\ Alone
    /\ \E given \in {Omitted, Bool(TRUE)} : New(given, CallerRegistered)

\* ------------------------------------------------------------- Agent.chat
\* LoopHead that keeps only the most recent messages of the transcript
LoopHeadKeepsRecent(h, done) ==
    /\ conversationHistory' = IF Len(h) > 2 THEN Tail(h) ELSE h
    /\ IF done < options.maxIterations
       THEN /\ iterations' = done + 1
            /\ attempt' = 1
            /\ response' = <<>>
            /\ pc' = "send"
       ELSE /\ iterations' = done
            /\ UNCHANGED <<attempt, response>>
            /\ pc' = "afterLoop"

\* The head of the while loop of chat, entered with the transcript h after
\* `done` iterations: another round, or the end of the loop.
LoopHead(h, done) ==
    /\ conversationHistory' = h
    /\ IF done < options.maxIterations
       THEN /\ iterations' = done + 1
            /\ attempt' = 1
            /\ response' = <<>>
            /\ pc' = "send"
       ELSE /\ iterations' = done
            /\ UNCHANGED <<attempt, response>>
            /\ pc' = "afterLoop"

\* chat that does not push the user message
UserTurnDropped(h, userMessage) == h

\* this.conversationHistory.push({role: 'user', content: userMessage})
UserTurn(h, userMessage) == Append(h, Msg("user", userMessage))

\* AgentLoop.run up to the first provider call: the accumulators are reset,
\* chat pushes the user message and enters its loop.
Run(userMessage) ==
    /\ pc = "idle"
    /\ runs < MaxRuns
    /\ Len(conversationHistory) <= MaxTranscript
    /\ runs' = runs + 1
    /\ userOutputs' = <<>>
    /\ actionsExecuted' = <<>>
    /\ onUserOutputLog' = <<>>
    /\ onActionExecutedLog' = <<>>
    /\ onStepCompleteLog' = <<>>
    /\ cleared' = ""
    /\ runStart' = Len(conversationHistory)
    /\ llmCalls' = 0
    /\ chatOutcome' = NoOutcome
    /\ finalResponse' = <<>>
    /\ LoopHead(UserTurn(conversationHistory, userMessage), 0)
    /\ runResult' = NoResult
    /\ trace' = <<>>
    /\ actionCalls' = <<>>
    /\ callIdx' = 0
    /\ actAttempt' = 0
    /\ actionResults' = <<>>
    /\ UNCHANGED <<unitVars, loopsVars, options, registry>>

\* ValidationError without the check for an empty response
ValidationErrorAcceptsBlank(reply, text) ==
    IF reply = Throw THEN "provider error"
    ELSE IF /\ Includes(text, "action") /\ Includes(text, "parameters")
            /\ Len(parseActionCalls(text)) = 0
         THEN "Response appears to contain malformed action JSON"
    ELSE ""

\* The reason an attempt is rejected, "" when it is accepted
\* (Agent.chat, the try block of the validation loop).
ValidationError(reply, text) ==
    IF reply = Throw THEN "provider error"
    ELSE IF IsBlank(text) THEN "LLM returned empty response"
    ELSE IF /\ Includes(text, "action") /\ Includes(text, "parameters")
            /\ Len(parseActionCalls(text)) = 0
         THEN "Response appears to contain malformed action JSON"
    ELSE ""

\* LastAttempt giving up one attempt early
LastAttemptOffByOne(a) == a + 1 >= options.maxRetries

\* attempt === maxRetries: the failed attempt was the last one
LastAttempt(a) == a = options.maxRetries

\* GivesUp that does not retry a provider call that threw
GivesUpOnThrow(reply, a) == reply = Throw \/ LastAttempt(a)

\* The catch block of the validation loop gives up on the last attempt,
\* whatever was thrown: by the provider call or by the validation.
GivesUp(reply, a) == LastAttempt(a)

\* the provider call of chat made on the plain path
AgenticCallPlain(a, threw) ==
    Ev("sendMessage", 0, a, IF threw THEN "threw" ELSE "")

\* await this.provider.sendAgenticMessage(this.conversationHistory,
\* systemPrompt)
AgenticCall(a, threw) ==
    Ev("sendAgenticMessage", 0, a, IF threw THEN "threw" ELSE "")

\* onInvalidOutput numbering the attempts from 0
onInvalidOutputZeroBased(a, err) == Ev("onInvalidOutput", 0, a - 1, err)

\* this.options.onInvalidOutput(attempt, errorMsg, response)
onInvalidOutput(a, err) == Ev("onInvalidOutput", 0, a, err)

\* One attempt of the validation loop: the provider call, the validation,
\* and either the catch block or the acceptance of the response.
SendAgenticMessage(reply) ==
    LET text == IF reply = Throw THEN response ELSE reply
        err == ValidationError(reply, text)
        \* trace holds the events of one round
        called == Append(IF attempt = 1 THEN <<>> ELSE trace,
                         AgenticCall(attempt, reply = Throw))
        calls == parseActionCalls(text)
    IN
    /\ pc = "send"
    /\ llmCalls' = llmCalls + 1
    /\ response' = text
    /\ IF err # ""
       THEN /\ trace' = Append(called, onInvalidOutput(attempt, err))
            /\ IF GivesUp(reply, attempt)
               THEN /\ chatOutcome' =
                         [kind |-> "raised", text |-> <<>>,
                          msg |-> "LLM produced invalid output after attempts",
                          n |-> options.maxRetries, last |-> err]
                    /\ pc' = "post"
                    /\ UNCHANGED attempt
               ELSE /\ attempt' = attempt + 1
                    /\ UNCHANGED <<pc, chatOutcome>>
            /\ actionCalls' = <<>>
            /\ callIdx' = 0
            /\ actAttempt' = 0
            /\ actionResults' = <<>>
            /\ UNCHANGED <<conversationHistory, finalResponse>>
       ELSE /\ trace' = called
            /\ conversationHistory' =
                   Append(conversationHistory, Msg("assistant", text))
            /\ actionCalls' = calls
            /\ actionResults' = <<>>
            /\ IF Len(calls) = 0
               THEN /\ finalResponse' = text
                    /\ pc' = "afterLoop"
                    /\ callIdx' = 0
                    /\ actAttempt' = 0
               ELSE /\ pc' = "exec"
                    /\ callIdx' = 1
                    /\ actAttempt' = 1
                    /\ UNCHANGED finalResponse
            /\ UNCHANGED <<attempt, chatOutcome>>
    /\ UNCHANGED <<unitVars, loopsVars, options, registry, iterations, loopVars>>

\* ------------------------------------------------ Agent._executeActions
NotFound(name) ==
    [action |-> name, success |-> FALSE, result |-> <<>>,
     error |-> <<"Action not found", name>>]
Succeeded(name, value) ==
    [action |-> name, success |-> TRUE, result |-> <<"value", value>>,
     error |-> <<>>]
\* Exhausted that leaves a result in the failed ActionResult
ExhaustedKeepsResult(name, attempts, lastError) ==
    [action |-> name, success |-> FALSE, result |-> <<"value", 0>>,
     error |-> <<"Action failed after attempts", attempts, lastError>>]
Exhausted(name, attempts, lastError) ==
    [action |-> name, success |-> FALSE, result |-> <<>>,
     error |-> <<"Action failed after attempts", attempts, lastError>>]

\* What execute(params) of the action registered under the name may do:
\* "ok" (resolves) or "throw" (rejects).  The built-in UserOutputAction only
\* echoes its message; the others are user supplied or call the provider,
\* and may fail.
ExecOutcomes(name) ==
    IF getAction(name).impl = "UserOutputAction" THEN {"ok"} ELSE {"ok", "throw"}

\* params[key]: the string member key of the parameters object, "" (falsy)
\* when there is none
Param(params, key) ==
    LET idx == {i \in 1..Len(params) :
                  /\ params[i].t = "str"
                  /\ params[i].x = key
                  /\ DepthAt(params, i - 1) = 0}
    IN IF idx = {} THEN ""
       ELSE params[CHOOSE i \in idx : \A j \in idx : j <= i].y

\* QueryLLMAction.execute with the transcript of the loop put before the
\* query
QueryMessagesWithHistory(params) ==
    conversationHistory \o <<Msg("user", Param(params, "prompt"))>>

\* QueryLLMAction.execute: the messages of the query, the context first as
\* a system message when there is one
QueryMessages(params) ==
    (IF Param(params, "context") # ""
     THEN <<Msg("system", Param(params, "context"))>> ELSE <<>>)
    \o <<Msg("user", Param(params, "prompt"))>>

\* await this.provider.sendMessage(messages), made for attempt n of call i
sendMessage(i, n, messages) == Ev("sendMessage", i, n, messages)

\* what QueryLLMAction.execute returns, as JSON.stringify writes it (the
\* timestamp is left out)
LlmQuery(prompt, reply) ==
    <<LB, Str("type", "llm_query"), Str("prompt", prompt),
      Str("response", reply), RB>>

\* HasUserOutput that asks for a registered user_output
HasUserOutputRegistered(calls) ==
    /\ Registered("user_output")
    /\ \E i \in 1..Len(calls) : calls[i].action = "user_output"

\* actionCalls.some(call => call.action === 'user_output')
HasUserOutput(calls) == \E i \in 1..Len(calls) : calls[i].action = "user_output"

\* NextCall that starts the next round before the results message of the
\* round is appended
NextCallBeforeResults(results) ==
    /\ actionResults' = results
    /\ IF callIdx < Len(actionCalls)
       THEN /\ callIdx' = callIdx + 1
            /\ actAttempt' = 1
            /\ UNCHANGED <<conversationHistory, iterations, attempt, response,
                           finalResponse, pc>>
       ELSE /\ UNCHANGED <<callIdx, actAttempt>>
            /\ IF HasUserOutput(actionCalls)
               THEN /\ finalResponse' = response
                    /\ pc' = "afterLoop"
                    /\ UNCHANGED <<conversationHistory, iterations, attempt,
                                   response>>
               ELSE /\ UNCHANGED finalResponse
                    /\ LoopHead(conversationHistory, iterations)

\* NextCall that appends the results message before the user_output check
NextCallResultsBeforeCheck(results) ==
    /\ actionResults' = results
    /\ IF callIdx < Len(actionCalls)
       THEN /\ callIdx' = callIdx + 1
            /\ actAttempt' = 1
            /\ UNCHANGED <<conversationHistory, iterations, attempt, response,
                           finalResponse, pc>>
       ELSE /\ UNCHANGED <<callIdx, actAttempt>>
            /\ IF HasUserOutput(actionCalls)
               THEN /\ finalResponse' = response
                    /\ pc' = "afterLoop"
                    /\ conversationHistory' =
                           Append(conversationHistory,
                                  Msg("user", formatActionResults(results)))
                    /\ UNCHANGED <<iterations, attempt, response>>
               ELSE /\ UNCHANGED finalResponse
                    /\ LoopHead(Append(conversationHistory,
                                       Msg("user", formatActionResults(results))),
                                iterations)

\* NextCall without the user_output check after _executeActions
NextCallAlwaysContinues(results) ==
    /\ actionResults' = results
    /\ IF callIdx < Len(actionCalls)
       THEN /\ callIdx' = callIdx + 1
            /\ actAttempt' = 1
            /\ UNCHANGED <<conversationHistory, iterations, attempt, response,
                           finalResponse, pc>>
       ELSE /\ UNCHANGED <<callIdx, actAttempt, finalResponse>>
            /\ LoopHead(Append(conversationHistory,
                               Msg("user", formatActionResults(results))),
                        iterations)

\* The for-of loop of _executeActions moves on with the results so far; after
\* the last call chat either ends the loop (a user_output call was parsed) or
\* appends the results message and goes to the head of its loop.
NextCall(results) ==
    /\ actionResults' = results
    /\ IF callIdx < Len(actionCalls)
       THEN /\ callIdx' = callIdx + 1
            /\ actAttempt' = 1
            /\ UNCHANGED <<conversationHistory, iterations, attempt, response,
                           finalResponse, pc>>
       ELSE /\ UNCHANGED <<callIdx, actAttempt>>
            /\ IF HasUserOutput(actionCalls)
               THEN /\ finalResponse' = response
                    /\ pc' = "afterLoop"
                    /\ UNCHANGED <<conversationHistory, iterations, attempt,
                                   response>>
               ELSE /\ UNCHANGED finalResponse
                    /\ LoopHead(Append(conversationHistory,
                                       Msg("user", formatActionResults(results))),
                                iterations)

\* RetryFollows that never reports a failed attempt
RetryFollowsNever(a) == FALSE

\* RetryFollows with <= for <
RetryFollowsInclusive(a) == a <= options.maxActionRetries

\* attempt < maxActionRetries: the failed attempt is followed by another
RetryFollows(a) == a < options.maxActionRetries

\* LastActionAttempt that lets one more attempt through
LastActionAttemptLate(a) == a > options.maxActionRetries

\* attempt === maxActionRetries: the retries of the call are exhausted
LastActionAttempt(a) == a = options.maxActionRetries

\* ExecuteUnregistered that makes chat raise for the missing action
ExecuteUnregisteredAborts ==
    /\ pc = "exec"
    /\ ~Registered(actionCalls[callIdx].action)
    /\ chatOutcome' = [kind |-> "raised", text |-> <<>>,
                       msg |-> "Action not found", n |-> 0, last |-> ""]
    /\ pc' = "post"
    /\ UNCHANGED <<unitVars, loopsVars, options, registry, conversationHistory,
                   chatVars, loopVars, llmCalls, trace>>

\* ExecuteUnregistered that moves on without pushing the not-found result
ExecuteUnregisteredDropsResult ==
    /\ pc = "exec"
    /\ ~Registered(actionCalls[callIdx].action)
    /\ NextCall(actionResults)
    /\ UNCHANGED <<unitVars, loopsVars, options, registry, actionCalls, chatOutcome, loopVars,
                   llmCalls, trace>>

\* One pass of the body of the for-of loop for a call whose action is not
\* registered.
ExecuteUnregistered ==
    /\ pc = "exec"
    /\ ~Registered(actionCalls[callIdx].action)
    /\ NextCall(Append(actionResults, NotFound(actionCalls[callIdx].action)))
    /\ UNCHANGED <<unitVars, loopsVars, options, registry, actionCalls, chatOutcome, loopVars,
                   llmCalls, trace>>

\* One attempt of the retry loop for a registered action: execute, then the
\* success branch or the catch block.  The execute of query_llm awaits
\* provider.sendMessage and resolves or rejects with it; the value another
\* execute resolves with is named by the attempt that produced it.
ExecuteAttempt(outcome) ==
    LET name == actionCalls[callIdx].action
        params == actionCalls[callIdx].parameters
        queries == getAction(name).impl = "QueryLLMAction"
        executed == Append(trace, Ev("execute", callIdx, actAttempt, name))
        called == IF queries
                  THEN Append(executed,
                              sendMessage(callIdx, actAttempt, QueryMessages(params)))
                  ELSE executed
        value == IF queries THEN LlmQuery(Param(params, "prompt"), PlainReply)
                 ELSE actAttempt
        lastError == "Action failed!"
        retried == IF RetryFollows(actAttempt)
                   THEN Append(called, Ev("onActionRetry", callIdx, actAttempt, lastError))
                   ELSE called
    IN
    /\ pc = "exec"
    /\ Registered(name)
    /\ outcome \in ExecOutcomes(name)
    /\ IF outcome = "ok"
       THEN /\ trace' = called
            /\ NextCall(Append(actionResults, Succeeded(name, value)))
       ELSE IF LastActionAttempt(actAttempt)
       THEN /\ trace' = Append(retried, Ev("onActionMaxRetries", callIdx, 0, lastError))
            /\ NextCall(Append(actionResults,
                               Exhausted(name, options.maxActionRetries, lastError)))
       ELSE /\ trace' = retried
            /\ actAttempt' = actAttempt + 1
            /\ UNCHANGED <<conversationHistory, iterations, attempt, response,
                           finalResponse, pc, callIdx, actionResults>>
    /\ UNCHANGED <<unitVars, loopsVars, options, registry, actionCalls, chatOutcome, loopVars, llmCalls>>

\* ChatEnd that takes the messages of the call back when it raises
ChatEndRollsBack ==
    /\ pc = "afterLoop"
    /\ chatOutcome' =
         IF iterations >= options.maxIterations
         THEN [kind |-> "raised", text |-> <<>>,
               msg |-> "Maximum iterations reached",
               n |-> options.maxIterations, last |-> ""]
         ELSE [kind |-> "returned", text |-> finalResponse,
               msg |-> "", n |-> 0, last |-> ""]
    /\ conversationHistory' =
         IF iterations >= options.maxIterations
         THEN SubSeq(conversationHistory, 1, runStart)
         ELSE conversationHistory
    /\ pc' = "post"
    /\ UNCHANGED <<unitVars, loopsVars, options, registry, chatVars, loopVars,
                   llmCalls, trace>>

\* After the while loop of chat: the iteration check, then the return.
ChatEnd ==
    /\ pc = "afterLoop"
    /\ chatOutcome' =
         IF iterations >= options.maxIterations
         THEN [kind |-> "raised", text |-> <<>>,
               msg |-> "Maximum iterations reached",
               n |-> options.maxIterations, last |-> ""]
         ELSE [kind |-> "returned", text |-> finalResponse,
               msg |-> "", n |-> 0, last |-> ""]
    /\ pc' = "post"
    /\ UNCHANGED <<unitVars, loopsVars, options, registry, conversationHistory, chatVars, loopVars,
                   llmCalls, trace>>

\* ---------------------------------------------------- AgentLoop.run, after chat
\* the action calls of the assistant messages of a transcript, in order
RECURSIVE AssistantCalls(_)
AssistantCalls(h) ==
    IF h = <<>> THEN <<>>
    ELSE (IF Head(h).role = "assistant" THEN parseActionCalls(Head(h).content)
          ELSE <<>>) \o AssistantCalls(Tail(h))

Execution(call) ==
    [actionName |-> call.action, parameters |-> call.parameters, result |-> "null"]

\* Track that records the calls of registered actions only
RECURSIVE TrackRegistered(_, _)
TrackRegistered(acc, calls) ==
    IF calls = <<>> THEN acc
    ELSE LET c == Head(calls)
             alreadyTracked ==
                 \E i \in 1..Len(acc) :
                     /\ acc[i].actionName = c.action
                     /\ acc[i].parameters = c.parameters
         IN TrackRegistered(IF \/ c.action = "user_output"
                               \/ alreadyTracked
                               \/ ~Registered(c.action)
                            THEN acc ELSE Append(acc, Execution(c)),
                            Tail(calls))

\* Track without the user_output check
RECURSIVE TrackWithUserOutput(_, _)
TrackWithUserOutput(acc, calls) ==
    IF calls = <<>> THEN acc
    ELSE LET c == Head(calls)
             alreadyTracked ==
                 \E i \in 1..Len(acc) :
                     /\ acc[i].actionName = c.action
                     /\ acc[i].parameters = c.parameters
         IN TrackWithUserOutput(IF alreadyTracked THEN acc
                                ELSE Append(acc, Execution(c)),
                                Tail(calls))

\* trackExecutedActions: every call but user_output, unless one with the same
\* name and the same JSON.stringify(parameters) is already tracked
RECURSIVE Track(_, _)
Track(acc, calls) ==
    IF calls = <<>> THEN acc
    ELSE LET c == Head(calls)
             alreadyTracked ==
                 \E i \in 1..Len(acc) :
                     /\ acc[i].actionName = c.action
                     /\ acc[i].parameters = c.parameters
         IN Track(IF c.action = "user_output" \/ alreadyTracked THEN acc
                  ELSE Append(acc, Execution(c)),
                  Tail(calls))

trackExecutedActions(acc, h) == Track(acc, AssistantCalls(h))

\* call.parameters.message: the string member "message" of the parameters
\* object, "" (falsy) when there is none
ParamMessage(params) ==
    LET idx == {i \in 1..Len(params) :
                  /\ params[i].t = "str"
                  /\ params[i].x = "message"
                  /\ DepthAt(params, i - 1) = 0}
    IN IF idx = {} THEN ""
       ELSE params[CHOOSE i \in idx : \A j \in idx : j <= i].y

\* Extract without the includes check
RECURSIVE ExtractNoDedupe(_, _)
ExtractNoDedupe(acc, calls) ==
    IF calls = <<>> THEN acc
    ELSE LET c == Head(calls)
             msg == ParamMessage(c.parameters)
         IN ExtractNoDedupe(IF c.action = "user_output" /\ msg # ""
                            THEN Append(acc, msg) ELSE acc,
                            Tail(calls))

RECURSIVE Extract(_, _)
Extract(acc, calls) ==
    IF calls = <<>> THEN acc
    ELSE LET c == Head(calls)
             msg == ParamMessage(c.parameters)
         IN Extract(IF /\ c.action = "user_output"
                       /\ msg # ""
                       /\ \A i \in 1..Len(acc) : acc[i] # msg
                    THEN Append(acc, msg) ELSE acc,
                    Tail(calls))

\* extractUserOutputs: the transcript, then the final response once more
extractUserOutputs(acc, h, final) ==
    Extract(Extract(acc, AssistantCalls(h)), parseActionCalls(final))

RECURSIVE JoinNames(_)
JoinNames(execs) ==
    IF execs = <<>> THEN ""
    ELSE IF Len(execs) = 1 THEN execs[1].actionName
    ELSE execs[1].actionName \o ", " \o JoinNames(Tail(execs))

generateAutoNotification(execs) == "Executed actions: " \o JoinNames(execs)

\* the object returned by the try block of run
Resolved(outs, execs) ==
    [returned |-> TRUE, success |-> TRUE, outputs |-> outs,
     actionsExecuted |-> execs, error |-> NoOutcome]

\* Caught after a post-processing of the transcript
CaughtAfterPostProcessing(outs, execs, err) ==
    [returned |-> TRUE, success |-> FALSE,
     outputs |-> extractUserOutputs(outs, conversationHistory, <<>>),
     actionsExecuted |-> trackExecutedActions(execs, conversationHistory),
     error |-> err]

\* Caught reporting the failed call as a success
CaughtAsSuccess(outs, execs, err) == Resolved(outs, execs)

\* the object returned by the catch block of run
Caught(outs, execs, err) ==
    [returned |-> TRUE, success |-> FALSE, outputs |-> outs,
     actionsExecuted |-> execs, error |-> err]

\* run after chat has returned or raised: the post-processing of the try
\* block, or the catch block.
RunEnd ==
    LET tracked == trackExecutedActions(actionsExecuted, conversationHistory)
        outs == extractUserOutputs(userOutputs, conversationHistory,
                                   chatOutcome.text)
        auto == Len(tracked) > 0 /\ Len(outs) = 0
        outs2 == IF auto THEN <<generateAutoNotification(tracked)>> ELSE outs
    IN
    /\ pc = "post"
    /\ pc' = "idle"
    /\ IF chatOutcome.kind = "returned"
       THEN /\ actionsExecuted' = tracked
            /\ onActionExecutedLog' =
                   onActionExecutedLog
                   \o SubSeq(tracked, Len(actionsExecuted) + 1, Len(tracked))
            /\ userOutputs' = outs2
            /\ onUserOutputLog' =
                   onUserOutputLog
                   \o SubSeq(outs2, Len(userOutputs) + 1, Len(outs2))
            /\ runResult' = Resolved(outs2, tracked)
       ELSE /\ runResult' = Caught(userOutputs, actionsExecuted, chatOutcome)
            /\ UNCHANGED <<userOutputs, actionsExecuted, onUserOutputLog,
                           onActionExecutedLog>>
    /\ UNCHANGED <<unitVars, loopsVars, options, registry, conversationHistory, chatVars, chatOutcome,
                   runs, runStart, llmCalls, trace, onStepCompleteLog, cleared>>

\* Agent.clearHistory, called on the agent between two chat calls: the
\* transcript is emptied.
AgentClearHistory ==
    /\ pc = "idle"
    /\ cleared' = "Agent"
    /\ conversationHistory' = <<>>
    /\ UNCHANGED <<unitVars, loopsVars, options, registry, pc, chatVars, chatOutcome,
                   userOutputs, actionsExecuted,
                   runResult, runs, runStart, onUserOutputLog,
                   onActionExecutedLog, onStepCompleteLog, llmCalls, trace>>

\* AgentLoop.clearHistory that leaves the accumulators to the next run call
clearHistoryKeepsAccumulators ==
    /\ pc = "idle"
    /\ cleared' = "AgentLoop"
    /\ conversationHistory' = <<>>
    /\ UNCHANGED <<unitVars, loopsVars, options, registry, pc, chatVars, chatOutcome,
                   userOutputs, actionsExecuted,
                   runResult, runs, runStart, onUserOutputLog,
                   onActionExecutedLog, onStepCompleteLog, llmCalls, trace>>

\* AgentLoop.clearHistory, called between two run calls: the transcript and
\* the two accumulators are emptied.
clearHistory ==
    /\ pc = "idle"
    /\ cleared' = "AgentLoop"
    /\ conversationHistory' = <<>>
    /\ userOutputs' = <<>>
    /\ actionsExecuted' = <<>>
    /\ UNCHANGED <<unitVars, loopsVars, options, registry, pc, chatVars, chatOutcome,
                   runResult, runs, runStart, onUserOutputLog,
                   onActionExecutedLog, onStepCompleteLog, llmCalls, trace>>

Next ==
    \/ \E m \in UserMessages : Run(m)
    \/ \E r \in Replies : SendAgenticMessage(r)
    \/ ExecuteUnregistered
    \/ \E o \in {"ok", "throw"} : ExecuteAttempt(o)
    \/ ChatEnd
    \/ RunEnd
    \/ clearHistory

Spec == Init /\ [][Next]_vars

\* The steps of a chat call in progress.  Every provider call and every
\* execute call is awaited, and each backoff sleep ends: when such a call
\* returns or throws, the chat call takes its next step.
ChatStep ==
    \/ \E r \in Replies : SendAgenticMessage(r)
    \/ ExecuteUnregistered
    \/ \E o \in {"ok", "throw"} : ExecuteAttempt(o)
    \/ ChatEnd

FairSpec == Spec /\ WF_vars(ChatStep)

\* ------------------------------------------------------ two loop instances
\* Everything a loop instance owns: the fields of its AgentLoop and of its
\* Agent (with the registry), and the locals of its run and chat calls.
Frame ==
    [options |-> options,
     registry |-> registry,
     conversationHistory |-> conversationHistory,
     userOutputs |-> userOutputs,
     actionsExecuted |-> actionsExecuted,
     pc |-> pc,
     iterations |-> iterations,
     finalResponse |-> finalResponse,
     attempt |-> attempt,
     response |-> response,
     actionCalls |-> actionCalls,
     callIdx |-> callIdx,
     actAttempt |-> actAttempt,
     actionResults |-> actionResults,
     chatOutcome |-> chatOutcome,
     runResult |-> runResult,
     runs |-> runs,
     runStart |-> runStart,
     llmCalls |-> llmCalls,
     trace |-> trace,
     onUserOutputLog |-> onUserOutputLog,
     onActionExecutedLog |-> onActionExecutedLog,
     onStepCompleteLog |-> onStepCompleteLog,
     cleared |-> cleared]

\* Resume with userOutputs kept in one place for all instances, as a static
\* field would be
ResumeSharedOutputs(f) ==
    /\ options' = f.options
    /\ registry' = f.registry
    /\ conversationHistory' = f.conversationHistory
    /\ userOutputs' = userOutputs
    /\ actionsExecuted' = f.actionsExecuted
    /\ pc' = f.pc
    /\ iterations' = f.iterations
    /\ finalResponse' = f.finalResponse
    /\ attempt' = f.attempt
    /\ response' = f.response
    /\ actionCalls' = f.actionCalls
    /\ callIdx' = f.callIdx
    /\ actAttempt' = f.actAttempt
    /\ actionResults' = f.actionResults
    /\ chatOutcome' = f.chatOutcome
    /\ runResult' = f.runResult
    /\ runs' = f.runs
    /\ runStart' = f.runStart
    /\ llmCalls' = f.llmCalls
    /\ trace' = f.trace
    /\ onUserOutputLog' = f.onUserOutputLog
    /\ onActionExecutedLog' = f.onActionExecutedLog
    /\ onStepCompleteLog' = f.onStepCompleteLog
    /\ cleared' = f.cleared

\* The suspended call of an instance goes on with the instance's own fields
\* and locals.
Resume(f) ==
    /\ options' = f.options
    /\ registry' = f.registry
    /\ conversationHistory' = f.conversationHistory
    /\ userOutputs' = f.userOutputs
    /\ actionsExecuted' = f.actionsExecuted
    /\ pc' = f.pc
    /\ iterations' = f.iterations
    /\ finalResponse' = f.finalResponse
    /\ attempt' = f.attempt
    /\ response' = f.response
    /\ actionCalls' = f.actionCalls
    /\ callIdx' = f.callIdx
    /\ actAttempt' = f.actAttempt
    /\ actionResults' = f.actionResults
    /\ chatOutcome' = f.chatOutcome
    /\ runResult' = f.runResult
    /\ runs' = f.runs
    /\ runStart' = f.runStart
    /\ llmCalls' = f.llmCalls
    /\ trace' = f.trace
    /\ onUserOutputLog' = f.onUserOutputLog
    /\ onActionExecutedLog' = f.onActionExecutedLog
    /\ onStepCompleteLog' = f.onStepCompleteLog
    /\ cleared' = f.cleared

\* The running call is suspended at an await and the event loop resumes the
\* call of the other instance.
Switch ==
    /\ peer # <<>>
    /\ peer' = Frame
    /\ self' = 3 - self
    /\ Resume(peer)
    /\ UNCHANGED unitVars

\* the user message given to run on each of the two instances
LoopMessage ==
    <<<<Prose("What's the weather in Paris?")>>, <<Prose("Hello!")>>>>

\* Two loops are constructed alike (with the default options, and fewer
\* than MaxSteps steps), and run is called once on each; their calls
\* interleave at the awaits.
TwoLoopsInit ==
    /\ parts = <<>>
    /\ toFormat = <<>>
    /\ New(Omitted, CallerRegistered)
    /\ options.maxIterations < MaxSteps
    /\ self = 1
    /\ peer = Frame

TwoLoopsNext ==
    \/ (runs = 0 /\ Run(LoopMessage[self]))
    \/ \E r \in {RPlain, ROutput, RMixed, RTwo} : SendAgenticMessage(r)
    \/ ExecuteUnregistered
    \/ \E o \in {"ok", "throw"} : ExecuteAttempt(o)
    \/ ChatEnd
    \/ RunEnd
    \/ Switch

TwoLoopsSpec == TwoLoopsInit /\ [][TwoLoopsNext]_vars

\* ------------------------------------------------- the two clearHistory
\* Runs on one loop, between which either the loop's clearHistory or the
\* clearHistory of its agent is called.
ClearNext ==
    \/ \E m \in UserMessages : Run(m)
    \/ \E r \in {RPlain, RWeather, ROutput} : SendAgenticMessage(r)
    \/ ExecuteUnregistered
    \/ \E o \in {"ok", "throw"} : ExecuteAttempt(o)
    \/ ChatEnd
    \/ RunEnd
    \/ clearHistory
    \/ AgentClearHistory

ClearSpec == Init /\ [][ClearNext]_vars

\* ----------------------------------------------- user_output that fails
\* A loop whose user_output is the built-in one, one that has none (the
\* option is true), and one whose user_output is an action of the caller,
\* which may fail.
OutputInit ==
    /\ parts = <<>>
    /\ toFormat = <<>>
    /\ Alone
    /\ \/ \E inc \in {Omitted, Bool(TRUE)} : New(inc, CallerRegistered)
       \/ New(List(<<>>), <<Action("user_output", "caller")>> \o CallerRegistered)

OutputNext ==
    \/ \E m \in UserMessages : Run(m)
    \/ \E r \in {RPlain, RWeather, ROutput, RMixed} : SendAgenticMessage(r)
    \/ ExecuteUnregistered
    \/ \E o \in {"ok", "throw"} : ExecuteAttempt(o)
    \/ ChatEnd
    \/ RunEnd

OutputSpec == OutputInit /\ [][OutputNext]_vars

\* ------------------------------------------------------ query_llm in a run
\* A loop with the built-in query_llm, one without any query_llm, and one
\* where the caller registered an action of that name; the model asks
\* query_llm with and without a context.
QueryInit ==
    /\ parts = <<>>
    /\ toFormat = <<>>
    /\ Alone
    /\ \/ New(Omitted, <<>>)
       \/ \E caller \in {<<>>, <<Action("query_llm", "caller")>>} :
              New(List(<<"user_output">>), caller)

QueryNext ==
    \/ \E m \in UserMessages : Run(m)
    \/ \E r \in {RPlain, RBlank, RQuery, RAsk, ROutput, Throw} :
           SendAgenticMessage(r)
    \/ ExecuteUnregistered
    \/ \E o \in {"ok", "throw"} : ExecuteAttempt(o)
    \/ ChatEnd
    \/ RunEnd

QuerySpec == QueryInit /\ [][QueryNext]_vars

\* ------------------------------------------- parseActionCalls, on its own
\* A response text is made of pieces: action blocks as the model is told to
\* write them, prose, and brace noise.
Piece(kind, action, members, text) ==
    [kind |-> kind, action |-> action, members |-> members, text |-> text]
BlockPiece(a, members) == Piece("block", a, members, Block(a, members))

PWeather == BlockPiece("get_weather", <<Str("location", "Paris")>>)
POutput == BlockPiece("user_output", <<Str("message", "Sunny, 22C")>>)
\* {"action": "search", "parameters": {"query": "ts", "filter": {"lang": "en"}}}
PNested ==
    BlockPiece("search",
               <<Str("query", "ts"), Key("filter"), LB, Str("lang", "en"), RB>>)
PProse == Piece("prose", "", <<>>, <<Prose("Let me check that.")>>)
PSpace == Piece("prose", "", <<>>, <<WS>>)
\* an opening or a closing brace on its own
POpen == Piece("noise", "", <<>>, <<LB>>)
PClose == Piece("noise", "", <<>>, <<RB>>)
\* {"action": "get_weather", "parameters": {location: Paris}}: balanced, both
\* markers, not JSON
PMalformed ==
    Piece("malformed", "", <<>>,
          <<LB, Str("action", "get_weather"), Key("parameters"), LB,
            Prose("location: Paris"), RB, RB>>)

Pieces == {PWeather, POutput, PNested, PProse, PSpace, POpen, PClose, PMalformed}

\* the texts of at most n pieces
RECURSIVE PieceSeqs(_)
PieceSeqs(n) ==
    IF n = 0 THEN {<<>>}
    ELSE PieceSeqs(n - 1)
         \cup {Append(q, x) : q \in {r \in PieceSeqs(n - 1) : Len(r) = n - 1},
                             x \in Pieces}

RECURSIVE Flatten(_)
Flatten(ps) == IF ps = <<>> THEN <<>> ELSE Head(ps).text \o Flatten(Tail(ps))

\* parseActionCalls(response) for the response made of the pieces
Parse ==
    /\ ~parsed.done
    /\ parsed' = [done |-> TRUE, calls |-> parseActionCalls(Flatten(parts))]
    /\ UNCHANGED <<registerOutcome, parts, toFormat, formatted, loopsVars, options,
                   registry, conversationHistory, pc, chatVars, chatOutcome,
                   loopVars, llmCalls, trace>>

ParserInit ==
    /\ parts \in PieceSeqs(MaxParts)
    /\ toFormat = <<>>
    /\ Alone
    /\ New(Omitted, <<>>)
ParserSpec == ParserInit /\ [][Parse]_vars

\* ------------------------------------------- formatActionResults on its own
\* the results dispatch can produce for a call
ActionResults ==
    UNION {{NotFound(name),
            Exhausted(name, MaxActionRetries, "Action failed!")}
           \cup {Succeeded(name, a) : a \in 1..MaxActionRetries} :
           name \in {"get_weather", "test_action"}}

\* the sequences of at most n results
ResultSeqs(n) == UNION {[1..k -> ActionResults] : k \in 0..n}

\* formatActionResults(results) for the given results
Format ==
    /\ ~formatted.done
    /\ formatted' = [done |-> TRUE, text |-> formatActionResults(toFormat)]
    /\ UNCHANGED <<registerOutcome, parts, parsed, toFormat, loopsVars, options,
                   registry, conversationHistory, pc, chatVars, chatOutcome,
                   loopVars, llmCalls, trace>>

FormatInit ==
    /\ parts = <<>>
    /\ toFormat \in ResultSeqs(MaxResults)
    /\ Alone
    /\ New(Omitted, <<>>)
FormatSpec == FormatInit /\ [][Format]_vars

\* --------------------------------------------------------- ActionRegistry
\* Array.from(this.actions.values()): the entries in insertion order
getActions == registry

\* the error registerAction throws for a name that is taken
AlreadyRegistered(name) == <<"Action with name is already registered", name>>

\* registerAction without the has() check: Map.set replaces the entry of a
\* name that is taken, in place
registerActionOverwrites(action) ==
    /\ pc = "idle"
    /\ registry' =
           IF Registered(action.name)
           THEN [i \in 1..Len(registry) |->
                    IF registry[i].name = action.name THEN action
                    ELSE registry[i]]
           ELSE Append(registry, action)
    /\ registerOutcome' = <<"registered", action.name>>
    /\ UNCHANGED <<parts, parsed, toFormat, formatted, loopsVars, options,
                   conversationHistory, pc,
                   chatVars, chatOutcome, loopVars, llmCalls, trace>>

\* AgentLoop.registerAction -> Agent.registerAction ->
\* ActionRegistry.registerAction
registerAction(action) ==
    /\ pc = "idle"
    /\ IF Registered(action.name)
       THEN /\ registerOutcome' = AlreadyRegistered(action.name)
            /\ UNCHANGED registry
       ELSE /\ registry' = Append(registry, action)
            /\ registerOutcome' = <<"registered", action.name>>
    /\ UNCHANGED <<parts, parsed, toFormat, formatted, loopsVars, options,
                   conversationHistory, pc,
                   chatVars, chatOutcome, loopVars, llmCalls, trace>>

\* the actions a caller registers: two objects for each name
CallerActions ==
    {Action(n, impl) : n \in {"user_output", "get_weather", "test_action"},
                       impl \in {"caller", "other"}}

\* A loop is constructed and the caller registers actions on it.
RegistryInit ==
    /\ parts = <<>>
    /\ toFormat = <<>>
    /\ Alone
    /\ \E given \in IncludeChoices : New(given, <<>>)
RegistryNext == \E a \in CallerActions : registerAction(a)
RegistrySpec == RegistryInit /\ [][RegistryNext]_vars

\* ------------------------------------------------------------------ claims
\* the part of the transcript appended by the current chat call
RunTranscript ==
    SubSeq(conversationHistory, runStart + 1, Len(conversationHistory))

\* the results messages appended by the current chat call: one per round that
\* ended with a non-terminal dispatch
ResultsCount ==
    Cardinality({i \in 2..Len(RunTranscript) : RunTranscript[i].role = "user"})

RaisedMaxIterations ==
    chatOutcome.kind = "raised" /\ chatOutcome.msg = "Maximum iterations reached"
RaisedInvalidOutput ==
    /\ chatOutcome.kind = "raised"
    /\ chatOutcome.msg = "LLM produced invalid output after attempts"

\* C1: when chat has ended, it raised the maximum-iterations error if and only
\* if maxIterations rounds in a row each ended with a non-terminal dispatch;
\* and if some round (the last allowed one included) recorded a final
\* response, chat returned that text.
C1_MaxIterationsIffNoFinalResponse ==
    pc = "post" =>
        /\ RaisedMaxIterations <=> (ResultsCount = options.maxIterations)
        /\ finalResponse # <<>> =>
               /\ chatOutcome.kind = "returned"
               /\ chatOutcome.text = finalResponse

\* C2: when the accepted response of a round has no action call, the loop
\* ends in that round: nothing is dispatched, no further provider call is
\* made, chat returns the text verbatim, and in the first round the transcript
\* has grown by the user message and one assistant message.
C2_ZeroCallsEndTheLoop ==
    (/\ pc = "post"
     /\ finalResponse # <<>>
     /\ Len(parseActionCalls(finalResponse)) = 0)
    => /\ chatOutcome.kind = "returned"
       /\ chatOutcome.text = finalResponse
       /\ \A k \in 1..Len(trace) : trace[k].e # "execute"
       /\ trace[Len(trace)].e = "sendAgenticMessage"
       /\ iterations = 1 =>
              /\ Len(RunTranscript) = 2
              /\ RunTranscript[1].role = "user"
              /\ RunTranscript[2] = Msg("assistant", finalResponse)

\* the round in progress, or the last round of the chat call, parsed a
\* user_output call (and the transcript of the call has not been cleared)
TerminalRound ==
    /\ Len(conversationHistory) > runStart
    /\ \E i \in 1..Len(actionCalls) : actionCalls[i].action = "user_output"

\* call i of the round has been dispatched: it has its result, and execute
\* was called if its action is registered
Dispatched(i) ==
    /\ i <= Len(actionResults)
    /\ actionResults[i].action = actionCalls[i].action
    /\ Registered(actionCalls[i].action) =>
           \E k \in 1..Len(trace) : trace[k].e = "execute" /\ trace[k].i = i

\* C3: a round whose parsed calls include user_output dispatches every call
\* of the round; after it the provider is not called again (control never
\* returns to the provider call, and the round's provider calls all precede
\* its dispatches) and no results message is appended: the transcript ends
\* with the round's assistant message.
C3_UserOutputEndsAfterDispatch ==
    TerminalRound =>
        /\ pc \in {"exec", "afterLoop", "post", "idle"}
        /\ pc # "exec" => \A i \in 1..Len(actionCalls) : Dispatched(i)
        /\ conversationHistory[Len(conversationHistory)]
               = Msg("assistant", response)
        /\ parseActionCalls(response) = actionCalls
        /\ \A j, k \in 1..Len(trace) :
               (trace[j].e = "sendAgenticMessage" /\ trace[k].e = "execute")
               => j < k

C3_Witness ==
    /\ pc = "post"
    /\ Len(actionCalls) = 2
    /\ actionCalls[1].action = "user_output"
    /\ Len(actionResults) = 2
    /\ ~actionResults[2].success
    /\ iterations = 2

MalformedError == "Response appears to contain malformed action JSON"

\* every rejected attempt of the round was rejected as malformed action JSON
OnlyMalformed ==
    \A k \in 1..Len(trace) :
        trace[k].e = "onInvalidOutput" => trace[k].s = MalformedError

\* C4: when chat raised in its first round and every attempt was rejected as
\* text that looks like an action call but parses to no call, the round made
\* exactly maxRetries provider calls, onInvalidOutput was invoked once after
\* each of them with the attempt numbers 1..maxRetries, the error carries the
\* last failure reason, and no assistant message was appended.
C4_RetriesExhaustedAfterMaxRetries ==
    (pc = "post" /\ RaisedInvalidOutput /\ iterations = 1 /\ OnlyMalformed)
    => /\ llmCalls = options.maxRetries
       /\ Len(trace) = 2 * options.maxRetries
       /\ \A k \in 1..options.maxRetries :
              /\ 2 * k <= Len(trace)
              /\ trace[2 * k - 1] = Ev("sendAgenticMessage", 0, k, "")
              /\ trace[2 * k] = Ev("onInvalidOutput", 0, k, MalformedError)
       /\ chatOutcome.n = options.maxRetries
       /\ chatOutcome.last = MalformedError
       /\ RunTranscript = <<Msg("user", RunTranscript[1].content)>>

C4_Witness ==
    /\ pc = "post"
    /\ RaisedInvalidOutput
    /\ iterations = 1
    /\ OnlyMalformed
    /\ response = RMalformed
    /\ llmCalls = options.maxRetries
    /\ options.maxRetries >= 2

\* the execute calls and observer calls made for call i of the round
CallEvents(i) == SelectSeq(trace, LAMBDA ev : ev.i = i)

\* what a call whose every attempt fails must leave in the trace
ExhaustionEvents(i, name, err) ==
    [k \in 1..(2 * options.maxActionRetries) |->
        IF k % 2 = 1 THEN Ev("execute", i, (k + 1) \div 2, name)
        ELSE IF k = 2 * options.maxActionRetries
             THEN Ev("onActionMaxRetries", i, 0, err)
             ELSE Ev("onActionRetry", i, k \div 2, err)]

\* call i of the round is a call of a registered action that failed
ExhaustedCall(i) ==
    /\ i <= Len(actionResults)
    /\ Registered(actionCalls[i].action)
    /\ ~actionResults[i].success

\* C5: for a call of a registered action whose execute failed on every
\* attempt: execute ran exactly maxActionRetries times, onActionRetry was
\* invoked after each of the attempts 1..maxActionRetries-1 and before the
\* next attempt, onActionMaxRetries once after the last attempt, one failed
\* result was recorded whose error carries the attempt count, and the round
\* went on (every call of a finished round has its result).
C5_ExhaustedActionRetries ==
    /\ \A i \in 1..Len(actionCalls) :
           ExhaustedCall(i) =>
              /\ CallEvents(i)
                   = ExhaustionEvents(i, actionCalls[i].action, "Action failed!")
              /\ actionResults[i]
                   = Exhausted(actionCalls[i].action, options.maxActionRetries,
                               "Action failed!")
              /\ actionResults[i].error[2] = options.maxActionRetries
              /\ actionResults[i].result = <<>>
    /\ (\E i \in 1..Len(actionCalls) : ExhaustedCall(i)) /\ pc # "exec"
          => Len(actionResults) = Len(actionCalls)

C5_Witness ==
    /\ pc = "send"
    /\ iterations = 2
    /\ Len(actionCalls) = 1
    /\ ExhaustedCall(1)
    /\ Len(CallEvents(1)) = 2 * options.maxActionRetries

\* C6: in a round, dispatch leaves one result per parsed call, in the order
\* of the calls, whatever calls are unregistered or fail: while the round is
\* dispatching there is a result for each call before the current one, and
\* after it one for every call; the results message of a non-terminal round
\* has a line for each, and a chat that raised after a dispatch raised for the
\* iteration limit.
C6_OneResultPerCallInOrder ==
    /\ pc = "exec" => Len(actionResults) = callIdx - 1
    /\ pc # "exec" => Len(actionResults) = Len(actionCalls)
    /\ \A i \in 1..Len(actionResults) :
           actionResults[i].action = actionCalls[i].action
    /\ (pc = "send" /\ actionCalls # <<>>) =>
           /\ conversationHistory[Len(conversationHistory)].role = "user"
           /\ Len(conversationHistory[Len(conversationHistory)].content)
                  = Len(actionCalls) + 1
           /\ \A i \in 1..Len(actionCalls) :
                  conversationHistory[Len(conversationHistory)].content[i + 1].x
                      = actionCalls[i].action
    /\ (pc = "post" /\ actionCalls # <<>> /\ chatOutcome.kind = "raised")
           => RaisedMaxIterations

C6_Witness ==
    /\ pc = "send"
    /\ Len(actionCalls) = 2
    /\ Len(actionResults) = 2
    /\ ~Registered(actionCalls[1].action)
    /\ ExhaustedCall(2)

RunCalls == AssistantCalls(RunTranscript)
\* those of them that are not user_output calls
RunActionCalls == SelectSeq(RunCalls, LAMBDA c : c.action # "user_output")
\* the messages of the user_output calls of the current run call
RunMessages ==
    {ParamMessage(RunCalls[i].parameters) :
        i \in {j \in 1..Len(RunCalls) : RunCalls[j].action = "user_output"}}
    \ {""}

\* the model requested one registered action other than user_output in round
\* 1 and user_output in round 2, and the provider was called for these two
\* replies only
TwoStepRun ==
    /\ Len(RunTranscript) = 4
    /\ RunTranscript[2].role = "assistant"
    /\ RunTranscript[4].role = "assistant"
    /\ Len(parseActionCalls(RunTranscript[2].content)) = 1
    /\ parseActionCalls(RunTranscript[2].content)[1].action # "user_output"
    /\ Registered(parseActionCalls(RunTranscript[2].content)[1].action)
    /\ Len(parseActionCalls(RunTranscript[4].content)) = 1
    /\ parseActionCalls(RunTranscript[4].content)[1].action = "user_output"
    /\ RunMessages # {}
    /\ llmCalls = 2

\* C8: a run in which the model requests one registered non-output action in
\* round 1 and then user_output with message m in round 2 returns
\* success=true, outputs = [m], one executed action named after the round-1
\* action, after exactly 2 model calls.
C8_TwoStepRunResult ==
    (pc = "idle" /\ runResult.returned /\ TwoStepRun)
    => /\ runResult.success
       /\ Len(runResult.outputs) = 1
       /\ runResult.outputs[1] \in RunMessages
       /\ Len(runResult.actionsExecuted) = 1
       /\ runResult.actionsExecuted[1].actionName = RunActionCalls[1].action
       /\ llmCalls = 2

\* C9: when a run call executed at least one non-output action and emitted
\* no user_output message, the returned outputs are exactly one synthesized
\* message naming the executed actions, and onUserOutput was invoked with
\* it; when the run call executed no action, no output is the synthesized
\* message.  Stated for the runs that return success=true (a run that
\* fails returns no output at all), before the transcript is cleared.
C9_AutoNotify ==
    (/\ pc = "idle" /\ runResult.returned /\ runResult.success
     /\ Len(conversationHistory) > runStart)
    => /\ (RunActionCalls # <<>> /\ RunMessages = {}) =>
              /\ runResult.outputs
                   = <<generateAutoNotification(Track(<<>>, RunActionCalls))>>
              /\ onUserOutputLog = runResult.outputs
       /\ RunActionCalls = <<>> =>
              \A i \in 1..Len(runResult.outputs) :
                  runResult.outputs[i]
                      # generateAutoNotification(runResult.actionsExecuted)

\* C10: the bookkeeping of a run call is that of the run call alone: the
\* executions and outputs it returns, and those passed to onActionExecuted
\* and onUserOutput during it, all come from action calls and user_output
\* messages the model requested during that run call.
C10_BookkeepingPerRun ==
    (pc = "idle" /\ runResult.returned /\ Len(conversationHistory) > runStart)
    => /\ \A i \in 1..Len(runResult.actionsExecuted) :
              \E j \in 1..Len(RunActionCalls) :
                  /\ RunActionCalls[j].action
                       = runResult.actionsExecuted[i].actionName
                  /\ RunActionCalls[j].parameters
                       = runResult.actionsExecuted[i].parameters
       /\ \A i \in 1..Len(onActionExecutedLog) :
              \E j \in 1..Len(RunActionCalls) :
                  /\ RunActionCalls[j].action = onActionExecutedLog[i].actionName
                  /\ RunActionCalls[j].parameters
                       = onActionExecutedLog[i].parameters
       /\ \A i \in 1..Len(runResult.outputs) :
              \/ runResult.outputs[i] \in RunMessages
              \/ /\ RunActionCalls # <<>>
                 /\ runResult.outputs[i]
                      = generateAutoNotification(Track(<<>>, RunActionCalls))
       /\ \A i \in 1..Len(onUserOutputLog) :
              \/ onUserOutputLog[i] \in RunMessages
              \/ /\ RunActionCalls # <<>>
                 /\ onUserOutputLog[i]
                      = generateAutoNotification(Track(<<>>, RunActionCalls))

\* ------------------------------------------------------------------- C11
\* C11: action names are unique in a registry, and a registerAction call for
\* a name that is taken throws and leaves the registry as it was: the lookup
\* of the name returns the same action as before and getActions the same
\* list.
C11_DuplicateNameRejected ==
    /\ [](\A i, j \in 1..Len(registry) :
             registry[i].name = registry[j].name => i = j)
    /\ [][\A a \in CallerActions :
             (Registered(a.name) /\ registerAction(a))
             => /\ registerOutcome' = AlreadyRegistered(a.name)
                /\ getAction(a.name)' = getAction(a.name)
                /\ getActions' = getActions]_vars

C11_Witness ==
    /\ registerOutcome = AlreadyRegistered("get_weather")
    /\ getAction("get_weather") = Action("get_weather", "caller")
    /\ Len(getActions) = 3

\* ------------------------------------------------------------------- C12
\* a user-role message that carries action results
IsResultsMessage(m) ==
    /\ m.role = "user"
    /\ m.content # <<>>
    /\ m.content[1] = Prose("Action results:")

\* C12: in every reachable transcript, each action-results message directly
\* follows an assistant message from which the parser extracts at least one
\* call, and it has one result line per call of that message, in the order
\* of the calls.
C12_ResultsFollowTheirRequest ==
    \A i \in 1..Len(conversationHistory) :
        IsResultsMessage(conversationHistory[i]) =>
            /\ i > 1
            /\ conversationHistory[i - 1].role = "assistant"
            /\ LET calls == parseActionCalls(conversationHistory[i - 1].content)
                   lines == Tail(conversationHistory[i].content)
               IN /\ Len(calls) >= 1
                  /\ Len(lines) = Len(calls)
                  /\ \A k \in 1..Len(lines) :
                         /\ lines[k].t = "line"
                         /\ lines[k].x = calls[k].action

C12_Witness ==
    /\ Len(conversationHistory) = 3
    /\ IsResultsMessage(conversationHistory[3])
    /\ Len(parseActionCalls(conversationHistory[2].content)) = 2
    /\ Len(conversationHistory[3].content) = 3

\* ------------------------------------------------------------------- C13
IsPrefix(a, b) == Len(a) <= Len(b) /\ SubSeq(b, 1, Len(a)) = a

\* C13: every step of a chat or run call leaves the previous transcript a
\* prefix of the new one, and a step that does not is a clearHistory call
\* (which is made between calls and empties the transcript).
C13_TranscriptAppendOnly ==
    [][/\ (pc # "idle" \/ pc' # "idle")
           => IsPrefix(conversationHistory, conversationHistory')
       /\ ~IsPrefix(conversationHistory, conversationHistory')
           => (clearHistory /\ conversationHistory' = <<>>)]_vars

\* a second run that began on a cleared transcript has appended to it
C13_Witness ==
    /\ runs = 2
    /\ runStart = 0
    /\ pc = "send"
    /\ Len(conversationHistory) = 3

\* ------------------------------------------------------------- C14 .. C16
\* the calls written in the well-formed blocks of the pieces, left to right
RECURSIVE BlockCalls(_)
BlockCalls(ps) ==
    IF ps = <<>> THEN <<>>
    ELSE (IF Head(ps).kind = "block"
          THEN <<[action |-> Head(ps).action, parameters |-> Head(ps).members]>>
          ELSE <<>>) \o BlockCalls(Tail(ps))

\* C14: for a text of well-formed action blocks interleaved with prose and
\* with unbalanced or malformed brace noise, parseActionCalls returns exactly
\* the calls of the blocks, in left-to-right order (none when the text has no
\* well-formed block).
C14_ParserReturnsTheBlocks ==
    parsed.done => parsed.calls = BlockCalls(parts)

\* C15: in a text whose only noise is brace-balanced candidates that hold
\* both markers and are not JSON, every well-formed block, the ones after
\* such a candidate included, is extracted.
C15_MalformedCandidateSkipped ==
    (/\ parsed.done
     /\ \A k \in 1..Len(parts) : parts[k].kind \in {"block", "prose", "malformed"})
    => parsed.calls = BlockCalls(parts)

\* piece k is a block whose parameters hold a nested object
NestedBlock(k) ==
    /\ parts[k].kind = "block"
    /\ \E i \in 1..Len(parts[k].members) : parts[k].members[i].t = "lb"

ExecuteAt == {k \in 1..Len(trace) : trace[k].e = "execute"}

\* C17: one thing at a time within a chat call.  The execute calls of a
\* round follow the textual order of the calls: call i is executed under the
\* name of the i-th block, its attempts are numbered 1, 2, ... in the order
\* they are made, and every attempt of call i comes before every attempt of
\* call i+1 and after the result of each earlier call is known; the provider
\* calls of a round all come before its execute calls; and the provider is
\* called in a later round only when the transcript ends with the results
\* message of the round before.
C17_OneCallAtATime ==
    /\ \A j, k \in ExecuteAt :
           j < k => \/ trace[j].i < trace[k].i
                    \/ trace[j].i = trace[k].i /\ trace[j].n < trace[k].n
    /\ \A k \in ExecuteAt :
           /\ trace[k].i \in 1..Len(actionCalls)
           /\ trace[k].s = actionCalls[trace[k].i].action
           /\ trace[k].n \in 1..options.maxActionRetries
           /\ trace[k].n > 1 =>
                  \E j \in ExecuteAt :
                      j < k /\ trace[j].i = trace[k].i /\ trace[j].n = trace[k].n - 1
           /\ Len(actionResults) >= trace[k].i - 1
    /\ pc = "exec" =>
           /\ Len(actionResults) = callIdx - 1
           /\ \A k \in ExecuteAt : trace[k].i <= callIdx
    /\ \A j, k \in 1..Len(trace) :
           (trace[j].e = "sendAgenticMessage" /\ trace[k].e = "execute") => j < k
    /\ (pc = "send" /\ iterations > 1) =>
           /\ IsResultsMessage(conversationHistory[Len(conversationHistory)])
           /\ Len(conversationHistory) >= runStart + 3
           /\ conversationHistory[Len(conversationHistory) - 1].role = "assistant"

\* round 2 of a chat call executed two calls, the second one twice
C17_Witness ==
    /\ pc = "afterLoop"
    /\ iterations = 2
    /\ Cardinality(ExecuteAt) = 3
    /\ Len(actionResults) = 2
    /\ IsResultsMessage(conversationHistory[3])

\* ------------------------------------------------------------------- C19
\* the assistant messages appended by the current chat call: its accepted
\* rounds
AcceptedRounds ==
    Cardinality({i \in 1..Len(RunTranscript) : RunTranscript[i].role = "assistant"})

\* C19: provided every provider call and every execute call returns or
\* throws, a chat call in progress eventually returns or raises; and at all
\* times it has accepted at most maxIterations rounds, made at most
\* maxRetries provider calls in the round, and at most maxActionRetries
\* execute calls for each parsed call.
C19_ChatTerminatesWithinBounds ==
    /\ [](/\ iterations <= options.maxIterations
          /\ AcceptedRounds <= options.maxIterations
          /\ attempt <= options.maxRetries
          /\ Cardinality({k \in 1..Len(trace) :
                             trace[k].e = "sendAgenticMessage"})
                 <= options.maxRetries
          /\ actAttempt <= options.maxActionRetries
          /\ \A i \in 1..Len(actionCalls) :
                 Cardinality({k \in ExecuteAt : trace[k].i = i})
                     <= options.maxActionRetries)
    /\ (pc \in {"send", "exec", "afterLoop"}) ~> (pc = "post")

\* a chat call that used up every bound: the last allowed round, after the
\* last allowed provider call, executing the last allowed attempt
C19_Witness ==
    /\ pc = "exec"
    /\ iterations = options.maxIterations
    /\ options.maxIterations = MaxSteps
    /\ attempt = options.maxRetries
    /\ actAttempt = options.maxActionRetries

\* ------------------------------------------------------------------- C20
\* C20: a provider call that throws is handled like an invalid output.  The
\* attempt is counted (attempts are numbered 1, 2, ... whatever their
\* outcome, up to maxRetries), onInvalidOutput is invoked for it with the
\* attempt number, and then the call is retried if the attempt was not the
\* last one; chat raises only when attempt maxRetries failed, with the last
\* failure as the reason.
C20_ProviderThrowIsRetried ==
    /\ \A k \in 1..Len(trace) :
           (trace[k].e = "sendAgenticMessage" /\ trace[k].s = "threw") =>
               /\ trace[k].n \in 1..options.maxRetries
               /\ \A j \in 1..(k - 1) :
                      trace[j].e = "sendAgenticMessage" => trace[j].n < trace[k].n
               /\ k < Len(trace)
               /\ trace[k + 1]
                    = Ev("onInvalidOutput", 0, trace[k].n, "provider error")
               /\ trace[k].n < options.maxRetries =>
                      \/ /\ k + 1 = Len(trace)
                         /\ pc = "send"
                         /\ attempt = trace[k].n + 1
                      \/ /\ k + 2 <= Len(trace)
                         /\ trace[k + 2].e = "sendAgenticMessage"
                         /\ trace[k + 2].n = trace[k].n + 1
               /\ trace[k].n = options.maxRetries =>
                      /\ k + 1 = Len(trace)
                      /\ pc \in {"post", "idle"}
                      /\ RaisedInvalidOutput
                      /\ chatOutcome.last = "provider error"
    /\ (pc = "post" /\ RaisedInvalidOutput) =>
           /\ chatOutcome.n = options.maxRetries
           /\ Cardinality({k \in 1..Len(trace) : trace[k].e = "onInvalidOutput"})
                  = options.maxRetries

\* the provider threw on the first attempt and on the last one, and chat
\* raised after maxRetries attempts
C20_Witness ==
    /\ pc = "post"
    /\ RaisedInvalidOutput
    /\ chatOutcome.last = "provider error"
    /\ trace[1].s = "threw"
    /\ Len(trace) = 2 * options.maxRetries
    /\ iterations = 2

\* ------------------------------------------------------------------- C18
\* what the run call of an instance leaves when nothing else touches the
\* instance: its transcript starts with its own user message, and its
\* outputs and executed actions are those of its own transcript
RanAlone(f, i) ==
    (f.pc = "idle" /\ f.runResult.returned) =>
        /\ f.conversationHistory[1] = Msg("user", LoopMessage[i])
        /\ \A k \in 2..Len(f.conversationHistory) :
               f.conversationHistory[k].role = "user"
               => IsResultsMessage(f.conversationHistory[k])
        /\ f.runResult.success =>
               LET execs == trackExecutedActions(<<>>, f.conversationHistory)
                   outs == extractUserOutputs(<<>>, f.conversationHistory,
                                              f.chatOutcome.text)
               IN /\ f.actionsExecuted = execs
                  /\ f.runResult.actionsExecuted = execs
                  /\ f.userOutputs
                       = IF Len(execs) > 0 /\ Len(outs) = 0
                         THEN <<generateAutoNotification(execs)>> ELSE outs
                  /\ f.runResult.outputs = f.userOutputs
        /\ ~f.runResult.success =>
               /\ f.userOutputs = <<>>
               /\ f.actionsExecuted = <<>>

\* C18: two loop instances whose run calls interleave in any way do not
\* affect each other.  A step of one instance leaves every field of the
\* other as it was, a suspended call resumes with exactly what it was
\* suspended with, and after its run each instance holds the transcript and
\* the accumulators of a run made alone.
C18_LoopInstancesIndependent ==
    /\ [](RanAlone(Frame, self) /\ RanAlone(peer, 3 - self))
    /\ [][IF self' = self THEN peer' = peer
          ELSE Frame' = peer /\ peer' = Frame]_vars

\* both instances have finished their run: the second one with an output
\* and an executed action, the first one with an output only
C18_Witness ==
    /\ self = 2
    /\ pc = "idle"
    /\ runResult.returned /\ runResult.success
    /\ Len(userOutputs) = 1
    /\ Len(actionsExecuted) = 1
    /\ peer.pc = "idle"
    /\ peer.runResult.returned /\ peer.runResult.success
    /\ Len(peer.userOutputs) = 1
    /\ Len(peer.actionsExecuted) = 0

\* ------------------------------------------------------------------- C21
\* the built-in actions the registry holds
BuiltIns ==
    {registry[i].name :
        i \in {j \in 1..Len(registry) :
                  registry[j].impl \in {"UserOutputAction", "QueryLLMAction"}}}

\* C21: a loop constructed with includeDefaultActions left out or true has
\* both built-in actions registered; constructed with a list it has exactly
\* the listed built-ins, and none with the empty list.
C21_DefaultActionsRegistered ==
    LET given == options.includeDefaultActions IN
    /\ (given.kind = "omitted" \/ (given.kind = "boolean" /\ given.flag))
           => BuiltIns = {"user_output", "query_llm"}
    /\ given.kind = "list"
           => BuiltIns = {given.list[i] : i \in 1..Len(given.list)}

\* ------------------------------------------------------------------- C22
\* C22: when a run has ended in which at least one model round completed,
\* onStepComplete was invoked at least once during it.
C22_StepObserverInvoked ==
    (pc = "idle" /\ runs > 0 /\ Len(conversationHistory) > runStart
     /\ AcceptedRounds >= 1)
        => Len(onStepCompleteLog) >= 1

\* ------------------------------------------------------------------- C23
\* C23: every ActionResult dispatch has produced is either a failure without
\* result and with an error, or a success without error; and so is every
\* line of a results message of the transcript.
C23_ResultShape ==
    /\ \A i \in 1..Len(actionResults) :
           LET r == actionResults[i] IN
           /\ ~r.success => (r.result = <<>> /\ r.error # <<>>)
           /\ r.success => r.error = <<>>
    /\ (pc # "exec" /\ Len(actionCalls) > 0 /\ ~HasUserOutput(actionCalls)
        /\ Len(conversationHistory) > runStart)
           => conversationHistory[Len(conversationHistory)].content
                  = formatActionResults(actionResults)

\* a round whose dispatch produced a failure for an unregistered action, a
\* failure after exhausted retries, or a success
C23_Witness ==
    /\ pc = "send"
    /\ Len(actionResults) = 2
    /\ ~actionResults[1].success
    /\ ExhaustedCall(2)
    /\ \E i \in 1..Len(conversationHistory) :
           /\ IsResultsMessage(conversationHistory[i])
           /\ \E k \in 2..Len(conversationHistory[i].content) :
                  conversationHistory[i].content[k].y = "completed successfully"

\* ------------------------------------------------------------------- C30
\* the events of call i of the round with the name e
CallEventsNamed(i, e) == SelectSeq(CallEvents(i), LAMBDA ev : ev.e = e)

\* C30: for a call of a registered action whose result is a success, with j
\* the number of execute calls made for it: j <= maxActionRetries, the
\* execute calls are the attempts 1..j, onActionRetry was invoked j-1 times
\* (once after each failed attempt, before the next one), onActionMaxRetries
\* never, and the one result of the call carries the value of attempt j.
C30_SucceedsOnAttemptJ ==
    \A i \in 1..Len(actionResults) :
        (Registered(actionCalls[i].action) /\ actionResults[i].success) =>
            LET j == Len(CallEventsNamed(i, "execute")) IN
            /\ j \in 1..options.maxActionRetries
            /\ Len(CallEvents(i)) = 2 * j - 1
            /\ \A k \in 1..j :
                   CallEvents(i)[2 * k - 1]
                       = Ev("execute", i, k, actionCalls[i].action)
            /\ \A k \in 1..(j - 1) :
                   CallEvents(i)[2 * k]
                       = Ev("onActionRetry", i, k, "Action failed!")
            /\ Len(CallEventsNamed(i, "onActionRetry")) = j - 1
            /\ Len(CallEventsNamed(i, "onActionMaxRetries")) = 0
            /\ actionResults[i] = Succeeded(actionCalls[i].action, j)
            /\ Len(actionResults) <= Len(actionCalls)

\* a call that failed once and succeeded on its second attempt
C30_Witness ==
    /\ pc = "send"
    /\ Len(actionResults) = 1
    /\ Registered(actionCalls[1].action)
    /\ actionResults[1].success
    /\ Len(CallEventsNamed(1, "execute")) = 2
    /\ options.maxActionRetries = 2

\* ------------------------------------------------------------------- C24
\* C24: formatActionResults of no result is the empty text, without header;
\* of one success and one failure it is the header followed by two lines, one
\* for each result in the order of the results, so that the success line
\* comes first exactly when the success came first.
C24_FormatActionResults ==
    formatted.done =>
        /\ toFormat = <<>> => formatted.text = <<>>
        /\ (Len(toFormat) = 2 /\ toFormat[1].success # toFormat[2].success) =>
               /\ Len(formatted.text) = 3
               /\ formatted.text[1] = Prose("Action results:")
               /\ \A i \in 1..2 :
                      /\ formatted.text[i + 1].t = "line"
                      /\ formatted.text[i + 1].x = toFormat[i].action
                      /\ formatted.text[i + 1].y
                           = IF toFormat[i].success
                             THEN "completed successfully" ELSE "failed"
                      /\ formatted.text[i + 1].r
                           = IF toFormat[i].success
                             THEN toFormat[i].result ELSE toFormat[i].error
               /\ (formatted.text[2].y = "completed successfully")
                      <=> toFormat[1].success

\* a failure followed by a success has been formatted
C24_Witness ==
    /\ formatted.done
    /\ Len(toFormat) = 2
    /\ ~toFormat[1].success
    /\ toFormat[2].success
    /\ Len(formatted.text) = 3

\* ------------------------------------------------------------------- C25
\* the user_output messages of the assistant messages of the transcript, in
\* transcript order, repetitions included
EmittedMessages ==
    LET calls == AssistantCalls(conversationHistory)
        emitting == SelectSeq(calls, LAMBDA c : c.action = "user_output"
                                              /\ ParamMessage(c.parameters) # "")
    IN [i \in 1..Len(emitting) |-> ParamMessage(emitting[i].parameters)]

\* the place of the first occurrence of m in the sequence q
FirstSeen(q, m) == CHOOSE i \in 1..Len(q) : q[i] = m /\ \A j \in 1..(i - 1) : q[j] # m

\* C25: the outputs a successful run returns hold each distinct user_output
\* message of the transcript exactly once, in the order the messages are first
\* seen in the transcript, and onUserOutput was invoked during the run once
\* for each element of the outputs, in their order.
C25_OutputsDistinctInOrder ==
    (/\ pc = "idle" /\ runResult.returned /\ runResult.success
     /\ Len(conversationHistory) > runStart)
    => LET outs == runResult.outputs IN
       /\ onUserOutputLog = outs
       /\ \A i, j \in 1..Len(outs) : i # j => outs[i] # outs[j]
       /\ \A k \in 1..Len(EmittedMessages) :
              \E i \in 1..Len(outs) : outs[i] = EmittedMessages[k]
       /\ EmittedMessages # <<>> =>
              /\ \A i \in 1..Len(outs) :
                     \E k \in 1..Len(EmittedMessages) : EmittedMessages[k] = outs[i]
              /\ \A i, j \in 1..Len(outs) :
                     i < j => FirstSeen(EmittedMessages, outs[i])
                                < FirstSeen(EmittedMessages, outs[j])

\* a run returned the two distinct messages of its transcript, the later one
\* emitted by the run itself and also found in its final response
C25_Witness ==
    /\ pc = "idle"
    /\ runResult.returned
    /\ runResult.success
    /\ Len(conversationHistory) > runStart
    /\ Len(runResult.outputs) = 2
    /\ Len(EmittedMessages) = 2
    /\ parseActionCalls(chatOutcome.text) # <<>>
    /\ ParamMessage(parseActionCalls(chatOutcome.text)[1].parameters)
           = runResult.outputs[2]

\* ------------------------------------------------------------------- C26
\* C26: the executed actions a successful run returns hold no user_output
\* entry and no two entries with the same name and the same parameters, and
\* onActionExecuted was invoked during the run once for each entry, in the
\* order of the list.
C26_ExecutionsDistinct ==
    (pc = "idle" /\ runResult.returned /\ runResult.success) =>
       LET execs == runResult.actionsExecuted IN
       /\ onActionExecutedLog = execs
       /\ \A i \in 1..Len(execs) : execs[i].actionName # "user_output"
       /\ \A i, j \in 1..Len(execs) :
              (/\ execs[i].actionName = execs[j].actionName
               /\ execs[i].parameters = execs[j].parameters) => i = j

\* a run whose transcript holds a user_output call and the same call of
\* another action twice returned one entry
C26_Witness ==
    /\ pc = "idle"
    /\ runResult.returned
    /\ runResult.success
    /\ Len(runResult.actionsExecuted) = 1
    /\ Len(conversationHistory) > runStart
    /\ LET calls == AssistantCalls(conversationHistory) IN
       /\ HasUserOutput(calls)
       /\ \E i, j \in 1..Len(calls) :
              /\ i < j
              /\ calls[i] = calls[j]
              /\ calls[i].action # "user_output"

\* ------------------------------------------------------------------- C27
\* call i of the round names an action that is not registered
UnregisteredCall(i) ==
    /\ i <= Len(actionResults)
    /\ ~Registered(actionCalls[i].action)

\* C27: a parsed call of an unregistered action leaves a failed result with
\* the not-found error, and neither execute nor onActionRetry nor
\* onActionMaxRetries is invoked for it; the round goes on with the next
\* call (chat does not raise for it, and every call of a dispatched round has
\* its result), and the results message that opens the next round carries
\* the failed line.
C27_UnregisteredIsNotFatal ==
    /\ \A i \in 1..Len(actionCalls) :
           UnregisteredCall(i) =>
              /\ ~actionResults[i].success
              /\ actionResults[i].action = actionCalls[i].action
              /\ actionResults[i].error
                   = <<"Action not found", actionCalls[i].action>>
              /\ actionResults[i].result = <<>>
              /\ CallEvents(i) = <<>>
              /\ pc = "send" =>
                     LET m == conversationHistory[Len(conversationHistory)] IN
                     /\ IsResultsMessage(m)
                     /\ m.content[i + 1].x = actionCalls[i].action
                     /\ m.content[i + 1].y = "failed"
                     /\ m.content[i + 1].r = actionResults[i].error
    /\ (\E i \in 1..Len(actionCalls) : ~Registered(actionCalls[i].action)) =>
           /\ pc # "exec" => Len(actionResults) = Len(actionCalls)
           /\ (pc \in {"post", "idle"} /\ chatOutcome.kind = "raised")
                  => RaisedMaxIterations

\* a round whose first call was unregistered went on to execute its second
\* call, and the next round begins with the results of both
C27_Witness ==
    /\ pc = "send"
    /\ attempt = 1
    /\ Len(actionCalls) = 2
    /\ UnregisteredCall(1)
    /\ Len(actionResults) = 2
    /\ actionResults[2].success
    /\ Len(CallEvents(2)) > 0

\* ------------------------------------------------------------------- C28
\* the step is an attempt of the validation loop that was rejected
RejectedAttempt ==
    /\ pc = "send"
    /\ llmCalls' = llmCalls + 1
    /\ trace'[Len(trace')].e = "onInvalidOutput"

\* C28: an attempt that is rejected leaves the transcript as it was, and
\* every assistant message of the transcript is an accepted response: not
\* blank, and not a text with both markers "action" and "parameters" that
\* parses to no call.
C28_OnlyAcceptedResponsesAppended ==
    /\ [][RejectedAttempt => conversationHistory' = conversationHistory]_vars
    /\ [](\A i \in 1..Len(conversationHistory) :
             conversationHistory[i].role = "assistant" =>
                LET text == conversationHistory[i].content IN
                /\ ~IsBlank(text)
                /\ ~(/\ Includes(text, "action")
                      /\ Includes(text, "parameters")
                      /\ Len(parseActionCalls(text)) = 0))

\* a blank attempt was rejected, and the second attempt of the round was
\* accepted and appended
C28_Witness ==
    /\ pc \in {"exec", "afterLoop"}
    /\ attempt = 2
    /\ Len(trace) = 3
    /\ trace[2] = Ev("onInvalidOutput", 0, 1, "LLM returned empty response")
    /\ Len(RunTranscript) = 2
    /\ RunTranscript[2] = Msg("assistant", response)

\* ------------------------------------------------------------------- C29
\* the provider calls and onInvalidOutput calls of the round
ValidationEvents == CallEvents(0)

\* the last attempt of the round so far was accepted
Accepted ==
    /\ ValidationEvents # <<>>
    /\ ValidationEvents[Len(ValidationEvents)].e = "sendAgenticMessage"

\* C29: when a round's response was accepted on attempt j, then
\* j <= maxRetries, the round made exactly j provider calls, numbered 1..j,
\* onInvalidOutput was invoked exactly j-1 times, with the attempt numbers
\* 1..j-1, each right after the provider call of its attempt and before the
\* next one, and the assistant message appended by the round is the
\* response of call j.
C29_AcceptedOnAttemptJ ==
    Accepted =>
        LET j == ValidationEvents[Len(ValidationEvents)].n IN
        /\ j \in 1..options.maxRetries
        /\ Len(ValidationEvents) = 2 * j - 1
        /\ \A k \in 1..j :
               /\ ValidationEvents[2 * k - 1].e = "sendAgenticMessage"
               /\ ValidationEvents[2 * k - 1].n = k
        /\ \A k \in 1..(j - 1) :
               /\ ValidationEvents[2 * k].e = "onInvalidOutput"
               /\ ValidationEvents[2 * k].n = k
        /\ ValidationEvents[2 * j - 1].s = ""
        /\ (pc \in {"exec", "afterLoop", "post"}) =>
               /\ attempt = j
               /\ \E i \in 1..Len(conversationHistory) :
                      /\ conversationHistory[i] = Msg("assistant", response)
                      /\ \A k \in (i + 1)..Len(conversationHistory) :
                             conversationHistory[k].role # "assistant"
                      /\ ValidationError(response, response) = ""

\* the second round of a run accepted its second response, after a
\* rejected first one
C29_Witness ==
    /\ pc \in {"exec", "afterLoop"}
    /\ iterations = 2
    /\ Accepted
    /\ Len(ValidationEvents) = 3
    /\ ValidationEvents[1].s = "threw"
    /\ conversationHistory[Len(conversationHistory)] = Msg("assistant", response)

\* ------------------------------------------------------------------- C31
\* C31: every provider call chat makes itself is a sendAgenticMessage call;
\* a sendMessage call is made only inside an execute call of the built-in
\* query_llm action, right after that execute call began.
C31_ChatUsesAgenticPath ==
    \A k \in 1..Len(trace) :
        /\ trace[k].i = 0 =>
               trace[k].e \in {"sendAgenticMessage", "onInvalidOutput"}
        /\ trace[k].e = "sendMessage" =>
               /\ trace[k].i \in 1..Len(actionCalls)
               /\ actionCalls[trace[k].i].action = "query_llm"
               /\ getAction("query_llm").impl = "QueryLLMAction"
               /\ k > 1
               /\ trace[k - 1].e = "execute"
               /\ trace[k - 1].i = trace[k].i
               /\ trace[k - 1].n = trace[k].n

\* a round whose second provider call was accepted executed query_llm,
\* which called sendMessage, and chat is at the provider call of its next
\* round
C31_Witness ==
    /\ pc = "send"
    /\ iterations = 2
    /\ Len(trace) = 5
    /\ trace[1].e = "sendAgenticMessage"
    /\ trace[2].e = "onInvalidOutput"
    /\ trace[3].e = "sendAgenticMessage"
    /\ trace[5].e = "sendMessage"
    /\ actionResults[1].success

\* ------------------------------------------------------------------- C32
\* call i of the round is a call of the built-in query_llm
QueryCall(i) ==
    /\ i \in 1..Len(actionCalls)
    /\ actionCalls[i].action = "query_llm"
    /\ getAction("query_llm").impl = "QueryLLMAction"

\* the messages of a plain call hold the context of the call as a system
\* message, first, when the call has one, and the prompt as the only user
\* message, last; nothing of the transcript is among them
QueryOnly(messages, params) ==
    LET prompt == Param(params, "prompt")
        context == Param(params, "context")
    IN /\ Len(messages) = IF context = "" THEN 1 ELSE 2
       /\ messages[Len(messages)] = [role |-> "user", content |-> prompt]
       /\ context # "" => messages[1] = [role |-> "system", content |-> context]

\* every execute call of call i made exactly one sendMessage call, with the
\* messages of the query
OnePlainCallEach(i) ==
    /\ Len(CallEventsNamed(i, "sendMessage")) = Len(CallEventsNamed(i, "execute"))
    /\ \A k \in 1..Len(CallEvents(i)) :
           CallEvents(i)[k].e = "execute" =>
              /\ k < Len(CallEvents(i))
              /\ CallEvents(i)[k + 1].e = "sendMessage"
              /\ CallEvents(i)[k + 1].n = CallEvents(i)[k].n
              /\ QueryOnly(CallEvents(i)[k + 1].s, actionCalls[i].parameters)

\* the step is an execute call of the built-in query_llm
QueryStep ==
    /\ pc = "exec"
    /\ QueryCall(callIdx)
    /\ Len(trace') > Len(trace)

\* C32 as stated: the value a successful query_llm call returns is the raw
\* reply of the plain call.
C32_ReturnsRawReply ==
    \A i \in 1..Len(actionResults) :
        (QueryCall(i) /\ actionResults[i].success) =>
            actionResults[i].result[2] = <<Prose(PlainReply)>>

\* C32, amended: an execute call of query_llm makes exactly one sendMessage
\* call, with the context as a system message (when there is one) and the
\* prompt as the only user message; it returns an object of type llm_query
\* that holds the prompt and, as its response, the raw reply; and the step
\* leaves the transcript as it was, but for the results message chat appends
\* when the call was the last of the round.
C32_QueryIsolated ==
    /\ [](\A i \in 1..Len(actionResults) :
             QueryCall(i) =>
                /\ OnePlainCallEach(i)
                /\ actionResults[i].success =>
                       actionResults[i].result
                         = <<"value",
                             <<LB, Str("type", "llm_query"),
                               Str("prompt", Param(actionCalls[i].parameters, "prompt")),
                               Str("response", PlainReply), RB>>>>)
    /\ [][QueryStep =>
             \/ conversationHistory' = conversationHistory
             \/ /\ pc' # "exec"
                /\ conversationHistory'
                     = Append(conversationHistory,
                              Msg("user", formatActionResults(actionResults')))]_vars

\* a query_llm call with a context failed once and then returned
C32_Witness ==
    /\ pc = "send"
    /\ Len(actionCalls) = 1
    /\ QueryCall(1)
    /\ Param(actionCalls[1].parameters, "context") # ""
    /\ Len(actionResults) = 1
    /\ actionResults[1].success
    /\ Len(CallEventsNamed(1, "sendMessage")) = 2

\* ------------------------------------------------------------------- C33
\* the locals of the scan after the first k characters of the text
ScanTo(text, k) == Scan(ScanStart, SubSeq(text, 1, k), 1)

\* the scan of the text ends inside a capture whose braces are not closed
OpenAtEnd(text) ==
    /\ ScanTo(text, Len(text)).inJson
    /\ ScanTo(text, Len(text)).braceCount > 0

\* the place of the brace that opened the capture the scan ends in
OpenedAt(text) ==
    CHOOSE p \in 1..Len(text) :
        /\ ~ScanTo(text, p - 1).inJson
        /\ \A q \in p..Len(text) : ScanTo(text, q).inJson

\* C33: when the scan ends inside a capture with an unclosed brace, what
\* parseActionCalls returns is what had been extracted when the capture was
\* opened: the capture gives no call and takes none away; and the empty text
\* gives the empty sequence.
C33_OpenCaptureDiscarded ==
    parsed.done =>
        LET text == Flatten(parts) IN
        /\ text = <<>> => parsed.calls = <<>>
        /\ OpenAtEnd(text) =>
               /\ parsed.calls = ScanTo(text, OpenedAt(text) - 1).calls
               /\ text[OpenedAt(text)].t = "lb"

\* a text with a block and then a brace that is never closed was parsed, and
\* the call of the block was returned
C33_Witness ==
    /\ parsed.done
    /\ OpenAtEnd(Flatten(parts))
    /\ OpenedAt(Flatten(parts)) > 1
    /\ Len(parsed.calls) = 1
    /\ Len(parts) >= 2
    /\ parts[1].kind = "block"

\* ------------------------------------------------------------------- C34
\* AgentLoop.getHistory, getUserOutputs, getActionsExecuted
getHistory == conversationHistory
getUserOutputs == userOutputs
getActionsExecuted == actionsExecuted

\* C34: after AgentLoop.clearHistory the three getters return empty
\* sequences; after Agent.clearHistory the transcript is empty, and the call
\* leaves the two accumulators as they were; and a call of either leaves the
\* registered actions and the options as they were.
C34_ClearHistory ==
    /\ [](cleared = "AgentLoop" =>
             /\ getHistory = <<>>
             /\ getUserOutputs = <<>>
             /\ getActionsExecuted = <<>>)
    /\ [](cleared = "Agent" => getHistory = <<>>)
    /\ [][cleared' = "Agent" =>
             /\ userOutputs' = userOutputs
             /\ actionsExecuted' = actionsExecuted]_vars
    /\ [][cleared' # "" => registry' = registry /\ options' = options]_vars

\* the loop's clearHistory was called after a run that returned outputs and
\* executed actions, on a loop with registered actions
C34_Witness ==
    /\ cleared = "AgentLoop"
    /\ runs > 0
    /\ runResult.success
    /\ Len(runResult.outputs) > 0
    /\ Len(runResult.actionsExecuted) > 0
    /\ Len(registry) > 2
    /\ getHistory = <<>>

\* ------------------------------------------------------------------- C35
\* the call of user_output in the round failed: its action is not
\* registered, or every attempt to execute it failed
OutputCallFailed ==
    \E i \in 1..Len(actionResults) :
        /\ actionCalls[i].action = "user_output"
        /\ ~actionResults[i].success

\* C35: whether a round ends the loop is decided by the names of its parsed
\* calls alone.  Once all calls of a round that parsed a user_output call are
\* dispatched, the loop has ended with the round's response as the final
\* response and without a results message, also when user_output is not
\* registered or failed on every attempt; a dispatched round that parsed no
\* user_output call is followed by its results message.
C35_TerminationByNameAlone ==
    (pc # "exec" /\ actionCalls # <<>> /\ Len(conversationHistory) > runStart) =>
        IF \E i \in 1..Len(actionCalls) : actionCalls[i].action = "user_output"
        THEN /\ pc \in {"afterLoop", "post", "idle"}
             /\ finalResponse = response
             /\ conversationHistory[Len(conversationHistory)]
                    = Msg("assistant", response)
             /\ Len(actionResults) = Len(actionCalls)
        ELSE /\ finalResponse = <<>>
             /\ IsResultsMessage(conversationHistory[Len(conversationHistory)])

\* the loop ended after a round whose user_output call failed on every
\* attempt, and chat returned the round's response
C35_Witness ==
    /\ pc = "post"
    /\ OutputCallFailed
    /\ Registered("user_output")
    /\ chatOutcome.kind = "returned"
    /\ chatOutcome.text = response
    /\ Len(CallEventsNamed(1, "onActionMaxRetries")) = 1

\* ------------------------------------------------------------------- C36
\* C36: whenever chat is about to call the provider, on a first attempt or
\* on a retry, the transcript it passes is not empty and ends with a message
\* of role user; and no transcript holds two assistant messages in a row.
C36_ProviderSeesUserLast ==
    /\ pc = "send" =>
           /\ Len(conversationHistory) > 0
           /\ conversationHistory[Len(conversationHistory)].role = "user"
    /\ \A i \in 1..(Len(conversationHistory) - 1) :
           ~(/\ conversationHistory[i].role = "assistant"
             /\ conversationHistory[i + 1].role = "assistant")

\* the retry of the first provider call of a second run, made on a
\* transcript that holds the first run's final response before the new user
\* message
C36_Witness ==
    /\ pc = "send"
    /\ runs = 2
    /\ attempt = 2
    /\ runStart > 0
    /\ conversationHistory[runStart].role = "assistant"
    /\ Len(conversationHistory) = runStart + 1

\* ------------------------------------------------------------------- C37
\* C37: when chat has returned, the transcript ends with an assistant
\* message whose content is the text chat returned.
C37_ReturnedTextIsLastMessage ==
    (pc = "post" /\ chatOutcome.kind = "returned") =>
        /\ Len(conversationHistory) > 0
        /\ conversationHistory[Len(conversationHistory)].role = "assistant"
        /\ conversationHistory[Len(conversationHistory)].content
               = chatOutcome.text

\* chat returned from its second round, which dispatched a user_output call
C37_Witness ==
    /\ pc = "post"
    /\ chatOutcome.kind = "returned"
    /\ iterations = 2
    /\ Len(actionCalls) = 1
    /\ actionCalls[1].action = "user_output"
    /\ actionResults[1].success
    /\ chatOutcome.text = ROutput

\* ------------------------------------------------------------------- C38
\* the messages of the call are the user message and then, for each of the
\* first n rounds, the assistant message and the results message
RoundsKept(n) ==
    /\ Len(RunTranscript) >= 1 + 2 * n
    /\ RunTranscript[1].role = "user"
    /\ RunTranscript[1].content \in UserMessages
    /\ \A k \in 1..n :
           /\ RunTranscript[2 * k].role = "assistant"
           /\ IsResultsMessage(RunTranscript[2 * k + 1])

\* C38: when chat raised, the transcript holds the user message of the call
\* and the assistant and results messages of every earlier round (and the
\* assistant message of a last round that ended the loop); the step that
\* raises leaves the transcript as it was; and the next chat call appends its
\* user message to the transcript that is there.
C38_NoRollbackOnRaise ==
    /\ []((pc = "post" /\ RaisedInvalidOutput) =>
              /\ RoundsKept(iterations - 1)
              /\ Len(RunTranscript) = 2 * iterations - 1)
    /\ []((pc = "post" /\ RaisedMaxIterations) =>
              /\ RoundsKept(iterations - 1)
              /\ RunTranscript[2 * iterations].role = "assistant"
              /\ Len(RunTranscript) \in {2 * iterations, 2 * iterations + 1})
    /\ [][(chatOutcome.kind # "raised" /\ chatOutcome'.kind = "raised")
            => conversationHistory' = conversationHistory]_vars
    /\ [][(chatOutcome.kind = "raised" /\ runs' = runs + 1)
            => /\ Len(conversationHistory') = Len(conversationHistory) + 1
               /\ IsPrefix(conversationHistory, conversationHistory')
               /\ conversationHistory'[Len(conversationHistory')].role = "user"]_vars

\* a second chat call is in progress on the transcript of a call that
\* raised in its first round: the user message of that call is still there
C38_Witness ==
    /\ runs = 2
    /\ runStart = 1
    /\ pc = "send"
    /\ Len(conversationHistory) = 2
    /\ conversationHistory[1].role = "user"
    /\ conversationHistory[2].role = "user"

\* ------------------------------------------------------------------- C39
\* C39: a run that returned success=false returned no output and no
\* executed action, and neither onUserOutput nor onActionExecuted was
\* invoked during it, whatever was dispatched before chat raised.
C39_FailedRunReturnsNothing ==
    (pc = "idle" /\ runResult.returned /\ ~runResult.success) =>
        /\ runResult.outputs = <<>>
        /\ runResult.actionsExecuted = <<>>
        /\ onUserOutputLog = <<>>
        /\ onActionExecutedLog = <<>>

\* a run failed after a round that executed an action and one that
\* dispatched a user_output call
C39_Witness ==
    /\ pc = "idle"
    /\ runResult.returned
    /\ ~runResult.success
    /\ Len(conversationHistory) > runStart
    /\ Len(RunTranscript) = 4
    /\ parseActionCalls(RunTranscript[2].content) # <<>>
    /\ ~HasUserOutput(parseActionCalls(RunTranscript[2].content))
    /\ HasUserOutput(actionCalls)
    /\ actionResults[1].success

\* ------------------------------------------------------------------- C40
\* the results message of the transcript reports a failed call
FailedLine ==
    \E i \in 1..Len(conversationHistory) :
        /\ IsResultsMessage(conversationHistory[i])
        /\ \E k \in 2..Len(conversationHistory[i].content) :
               conversationHistory[i].content[k].y = "failed"

\* C40: in a run that succeeded, every call of an action other than
\* user_output that an assistant message of the transcript requests has an
\* entry in the returned actionsExecuted with its name and parameters,
\* whether its dispatch succeeded, found no action or failed on every
\* attempt; every entry has result null, and onActionExecuted was invoked
\* with each entry.
C40_RequestedCallsAreRecorded ==
    (/\ pc = "idle" /\ runResult.returned /\ runResult.success
     /\ Len(conversationHistory) > runStart) =>
        LET execs == runResult.actionsExecuted
            calls == AssistantCalls(conversationHistory)
        IN /\ \A k \in 1..Len(calls) :
                  calls[k].action # "user_output" =>
                     \E i \in 1..Len(execs) :
                         /\ execs[i].actionName = calls[k].action
                         /\ execs[i].parameters = calls[k].parameters
                         /\ i <= Len(onActionExecutedLog)
                         /\ onActionExecutedLog[i] = execs[i]
           /\ \A i \in 1..Len(execs) : execs[i].result = "null"

\* a run succeeded after a round with a call of an unregistered action and
\* a call that failed on every attempt, and both are recorded
C40_Witness ==
    /\ pc = "idle"
    /\ runResult.returned
    /\ runResult.success
    /\ Len(conversationHistory) > runStart
    /\ FailedLine
    /\ Len(runResult.actionsExecuted) = 2
    /\ ~Registered(runResult.actionsExecuted[1].actionName)
    /\ \E i \in 1..Len(conversationHistory) :
           /\ IsResultsMessage(conversationHistory[i])
           /\ Len(conversationHistory[i].content) = 3
           /\ conversationHistory[i].content[2].y = "failed"
           /\ conversationHistory[i].content[3].y = "failed"
====
